---- MODULE Spec2Model ----
(***************************************************************************)
(* Model of the seismic-risk history/trend engine and exposure scorer.     *)
(*                                                                         *)
(* Units.  A score that the program holds as a float rounded to two        *)
(* decimals is an integer number of hundredths ("cents"); the float behind *)
(* it is the binary64 value nearest to cents/100.  A score that has not    *)
(* been rounded yet is an integer number of thousandths ("millis").        *)
(* Calendar dates are day numbers; isoformat() is zero padded, so the      *)
(* lexicographic order of the file names is the order of the day numbers.  *)
(* An optional value is <<>> (None) or <<v>>.                              *)
(***************************************************************************)
EXTENDS Integers, Sequences, FiniteSets, TLC

None == <<>>
Some(x) == <<x>>

\* ------------------------------------------------------------------------
\* Bounds of the model
\* ------------------------------------------------------------------------
MaxHist == 2        \* longest history handed to compute_trends directly
MaxDate == 3        \* snapshot dates are 1..MaxDate, today comes after
MaxDays == 2        \* largest max_days handed to load_history directly

\* ------------------------------------------------------------------------
\* Sequence helpers
\* ------------------------------------------------------------------------
Range(s) == {s[i] : i \in 1..Len(s)}

RECURSIVE Flatten(_)
Flatten(ss) == IF ss = <<>> THEN <<>> ELSE Head(ss) \o Flatten(Tail(ss))

MapSeq(s, F(_)) == [i \in 1..Len(s) |-> F(s[i])]

\* keys of a dict filled by iterating ks: distinct keys, first insertion order
RECURSIVE DictKeys(_)
DictKeys(ks) ==
    IF ks = <<>> THEN <<>>
    ELSE LET init == DictKeys(SubSeq(ks, 1, Len(ks) - 1))
             k == ks[Len(ks)]
         IN IF k \in Range(init) THEN init ELSE Append(init, k)

\* value a dict holds for key k after d[Key(e)] = e for every e of s in order
LastWith(s, Key(_), k) ==
    s[CHOOSE i \in 1..Len(s) :
        /\ Key(s[i]) = k
        /\ \A j \in (i + 1)..Len(s) : Key(s[j]) # k]

\* ------------------------------------------------------------------------
\* binary64 arithmetic on two-decimal values
\* ------------------------------------------------------------------------
RECURSIVE Pow2(_)
Pow2(k) == IF k = 0 THEN 1 ELSE 2 * Pow2(k - 1)

RECURSIVE Pow2Mod(_, _)
Pow2Mod(k, m) == IF k = 0 THEN 1 % m ELSE (2 * Pow2Mod(k - 1, m)) % m

\* e with 2^e <= n/den < 2^(e+1), for n >= 1
RECURSIVE BinadeFrom(_, _, _)
BinadeFrom(n, den, e) ==
    LET below == IF e + 1 >= 0 THEN n < den * Pow2(e + 1)
                 ELSE n * Pow2(-(e + 1)) < den
    IN IF below THEN e ELSE BinadeFrom(n, den, e + 1)
Binade(n, den) == BinadeFrom(n, den, -10)

\* The binary64 nearest to n/den is Q / 2^s with s = 52 - Binade and
\* Q = round(n * 2^s / den).  FloatErr is den * Q - n * 2^s scaled to
\* units of 1 / (den * 2^62): the signed distance of the float from the
\* decimal it stands for (values below 2^-10 are outside the model).
FloatErr(n, den) ==
    IF n = 0 THEN 0
    ELSE LET e == Binade(n, den)
             r == (n * Pow2Mod(52 - e, den)) % den
             q == IF 2 * r < den THEN -r ELSE den - r
         IN q * Pow2(e + 10)

\* half an ulp of 0.5 (2^-54) in the units of FloatErr(_, 100)
HalfUlpOfHalf == 100 * Pow2(62 - 54)

\* round(x, 2) of the float nearest to m/1000: correctly rounded from the
\* binary value; an exact tie (x.125, x.375, ...) goes to the even digit
Round2(m) ==
    LET c == m \div 10
        d == m % 10
        err == FloatErr(m, 1000)
    IN IF d < 5 THEN c
       ELSE IF d > 5 THEN c + 1
       ELSE IF err > 0 THEN c + 1
       ELSE IF err < 0 THEN c
       ELSE IF c % 2 = 0 THEN c ELSE c + 1

DELTA_THRESHOLD == 50

\* float(cur/100) - float(prev/100) > 0.5, the subtraction rounded to nearest
DeltaAbove(cur, prev) ==
    \/ cur - prev > DELTA_THRESHOLD
    \/ /\ cur - prev = DELTA_THRESHOLD
       /\ FloatErr(cur, 100) - FloatErr(prev, 100) > HalfUlpOfHalf

\* float(cur/100) - float(prev/100) < -0.5
DeltaBelow(cur, prev) ==
    \/ cur - prev < -DELTA_THRESHOLD
    \/ /\ cur - prev = -DELTA_THRESHOLD
       /\ FloatErr(cur, 100) - FloatErr(prev, 100) < -HalfUlpOfHalf

\* round(current - previous, 2) in cents: the float difference of two
\* two-decimal values is within 2^-40 of the decimal difference
RoundedDelta(cur, prev) == cur - prev

\* ------------------------------------------------------------------------
\* history.py: snapshots
\* ------------------------------------------------------------------------
\* AirportSnapshot / CountrySnapshot / DailySnapshot built by save_snapshot.
\* earthquake_count, avg_magnitude, nearby_quake_count, closest_quake_km and
\* max_pga_g are copied through and never read by the trend code; they are
\* left out of the records.
AirportSnapshotOf(ap) ==
    [iata_code |-> ap.iata_code,
     name |-> ap.name,
     exposure_score |-> Round2(ap.exposure_score)]

CountrySnapshotOf(r) ==
    [iso_alpha3 |-> r.iso_alpha3,
     country |-> r.country,
     score |-> Round2(r.seismic_hub_risk_score),
     exposed_airport_count |-> Len(r.exposed_airports),
     airports |-> MapSeq(r.exposed_airports, AirportSnapshotOf)]

DailySnapshotOf(results, snapshot_date, scoring_method) ==
    [date |-> snapshot_date,
     scoring_method |-> scoring_method,
     countries |-> MapSeq(results, CountrySnapshotOf)]

\* ------------------------------------------------------------------------
\* history.py: compute_trends
\* ------------------------------------------------------------------------
Iso3Of(x) == x.iso_alpha3
IataOf(x) == x.ap.iata_code

\* (airport, parent country) pairs in the order the nested loops visit them
AirportsOf(countries, Aps(_)) ==
    Flatten([i \in 1..Len(countries) |->
        [j \in 1..Len(Aps(countries[i])) |->
            [ap |-> Aps(countries[i])[j], iso3 |-> countries[i].iso_alpha3]]])

SnapAirports(snap) == AirportsOf(snap.countries, LAMBDA cs : cs.airports)
ResultAirports(results) == AirportsOf(results, LAMBDA r : r.exposed_airports)

\* mutant: only the most recent snapshot contributes to a trajectory
TrajectoryMostRecentOnly(hist, iso3) ==
    LET hits == SelectSeq(hist[Len(hist)].countries, LAMBDA cs : cs.iso_alpha3 = iso3)
    IN [j \in 1..Len(hits) |-> <<hist[Len(hist)].date, hits[j].score>>]

\* trajectories[iso3]: (date, score) of every history entry of the country
Trajectory(hist, iso3) ==
    Flatten([i \in 1..Len(hist) |->
        LET hits == SelectSeq(hist[i].countries, LAMBDA cs : cs.iso_alpha3 = iso3)
        IN [j \in 1..Len(hits) |-> <<hist[i].date, hits[j].score>>]])

\* airport_trajectories[iata]: (date, score, iso_alpha3, name)
AirportTrajectory(hist, iata) ==
    Flatten([i \in 1..Len(hist) |->
        LET hits == SelectSeq(SnapAirports(hist[i]), LAMBDA e : e.ap.iata_code = iata)
        IN [j \in 1..Len(hits) |->
               <<hist[i].date, hits[j].ap.exposure_score, hits[j].iso3, hits[j].ap.name>>]])

\* mutant: the deepest snapshot is taken for the previous one
PreviousSnapOldest(hist) == hist[1]

\* previous_snap = history[-1]
PreviousSnap(hist) == hist[Len(hist)]

\* previous_map of the most recent snapshot: later entries overwrite
PreviousMap(prev_snap) ==
    [k \in {cs.iso_alpha3 : cs \in Range(prev_snap.countries)} |->
        LastWith(prev_snap.countries, Iso3Of, k)]

\* previous_airport_map and previous_airport_country in one function
PreviousAirportMap(prev_snap) ==
    [k \in {e.ap.iata_code : e \in Range(SnapAirports(prev_snap))} |->
        LastWith(SnapAirports(prev_snap), IataOf, k)]

Direction(cur, previous_score) ==
    IF previous_score = None THEN "new"
    ELSE IF DeltaAbove(cur, previous_score[1]) THEN "up"
    ELSE IF DeltaBelow(cur, previous_score[1]) THEN "down"
    ELSE "stable"

\* CountryTrend of a country of current_results
CurrentCountryTrend(r, hist, today) ==
    LET previous_map == PreviousMap(PreviousSnap(hist))
        current_score == Round2(r.seismic_hub_risk_score)
        traj == Trajectory(hist, r.iso_alpha3)
        scores == [i \in 1..Len(traj) |-> traj[i][2]] \o <<current_score>>
        dates == [i \in 1..Len(traj) |-> traj[i][1]] \o <<today>>
        previous_score == IF r.iso_alpha3 \in DOMAIN previous_map
                          THEN Some(previous_map[r.iso_alpha3].score) ELSE None
    IN [iso_alpha3 |-> r.iso_alpha3,
        country |-> r.country,
        scores |-> scores,
        dates |-> dates,
        current_score |-> current_score,
        previous_score |-> previous_score,
        score_delta |-> IF previous_score = None THEN 0
                        ELSE RoundedDelta(current_score, previous_score[1]),
        trend_direction |-> Direction(current_score, previous_score),
        is_new |-> previous_score = None,
        is_gone |-> FALSE,
        days_tracked |-> Len(scores)]

\* mutant: the delta of a gone entity keeps the sign of its score
GoneDeltaUnsigned(prev_score) == prev_score

\* round(-prev.score, 2) of a two-decimal score
GoneDelta(prev_score) == -prev_score

\* CountryTrend of a country of the previous snapshot that disappeared
GoneCountryTrend(prev_cs, hist) ==
    LET traj == Trajectory(hist, prev_cs.iso_alpha3)
        scores == [i \in 1..Len(traj) |-> traj[i][2]]
    IN [iso_alpha3 |-> prev_cs.iso_alpha3,
        country |-> prev_cs.country,
        scores |-> scores,
        dates |-> [i \in 1..Len(traj) |-> traj[i][1]],
        current_score |-> 0,
        previous_score |-> Some(prev_cs.score),
        score_delta |-> GoneDelta(prev_cs.score),
        trend_direction |-> "gone",
        is_new |-> FALSE,
        is_gone |-> TRUE,
        days_tracked |-> Len(scores)]

\* AirportTrend of an exposed airport of current_results (e = airport, country)
CurrentAirportTrend(e, hist, today) ==
    LET previous_airport_map == PreviousAirportMap(PreviousSnap(hist))
        iata == e.ap.iata_code
        current_ap_score == Round2(e.ap.exposure_score)
        ap_traj == AirportTrajectory(hist, iata)
        ap_scores == [i \in 1..Len(ap_traj) |-> ap_traj[i][2]] \o <<current_ap_score>>
        ap_dates == [i \in 1..Len(ap_traj) |-> ap_traj[i][1]] \o <<today>>
        prev_ap_score == IF iata \in DOMAIN previous_airport_map
                         THEN Some(previous_airport_map[iata].ap.exposure_score)
                         ELSE None
    IN [iata_code |-> iata,
        name |-> e.ap.name,
        country_iso3 |-> e.iso3,
        scores |-> ap_scores,
        dates |-> ap_dates,
        current_score |-> current_ap_score,
        previous_score |-> prev_ap_score,
        score_delta |-> IF prev_ap_score = None THEN 0
                        ELSE RoundedDelta(current_ap_score, prev_ap_score[1]),
        trend_direction |-> Direction(current_ap_score, prev_ap_score),
        is_new |-> prev_ap_score = None,
        is_gone |-> FALSE,
        days_tracked |-> Len(ap_scores)]

\* AirportTrend of an airport of the previous snapshot that disappeared
GoneAirportTrend(prev, hist) ==
    LET ap_traj == AirportTrajectory(hist, prev.ap.iata_code)
        ap_scores == [i \in 1..Len(ap_traj) |-> ap_traj[i][2]]
    IN [iata_code |-> prev.ap.iata_code,
        name |-> prev.ap.name,
        country_iso3 |-> prev.iso3,
        scores |-> ap_scores,
        dates |-> [i \in 1..Len(ap_traj) |-> ap_traj[i][1]],
        current_score |-> 0,
        previous_score |-> Some(prev.ap.exposure_score),
        score_delta |-> GoneDelta(prev.ap.exposure_score),
        trend_direction |-> "gone",
        is_new |-> FALSE,
        is_gone |-> TRUE,
        days_tracked |-> Len(ap_scores)]

\* compute_trends(history, current_results, scoring_method) at date today:
\* None for an empty history, else Some(TrendSummary)
ComputeTrends(hist, results, today) ==
    IF hist = <<>> THEN None
    ELSE
    LET prev_snap == PreviousSnap(hist)
        previous_map == PreviousMap(prev_snap)
        previous_airport_map == PreviousAirportMap(prev_snap)
        current_keys == {r.iso_alpha3 : r \in Range(results)}
        gone_countries ==
            SelectSeq(DictKeys(MapSeq(prev_snap.countries, Iso3Of)),
                      LAMBDA k : k \notin current_keys)
        country_trends ==
            [k \in current_keys \cup Range(gone_countries) |->
                IF k \in current_keys
                THEN CurrentCountryTrend(LastWith(results, Iso3Of, k), hist, today)
                ELSE GoneCountryTrend(previous_map[k], hist)]
        cur_aps == ResultAirports(results)
        current_airport_iatas == {e.ap.iata_code : e \in Range(cur_aps)}
        airport_trends ==
            [k \in current_airport_iatas \cup DOMAIN previous_airport_map |->
                IF k \in current_airport_iatas
                THEN CurrentAirportTrend(LastWith(cur_aps, IataOf, k), hist, today)
                ELSE GoneAirportTrend(previous_airport_map[k], hist)]
        inserted == DictKeys(MapSeq(results, Iso3Of) \o gone_countries)
    IN Some([date |-> today,
             history_days |-> Len(hist),
             history_start |-> hist[1].date,
             country_trends |-> country_trends,
             airport_trends |-> airport_trends,
             new_countries |-> SelectSeq(inserted, LAMBDA k : country_trends[k].is_new),
             gone_countries |-> gone_countries])

\* ------------------------------------------------------------------------
\* history.py: the history directory, save_snapshot, load_history
\* ------------------------------------------------------------------------
\* A directory is [exists, files]; files maps the date in a file's name
\* (<date>.json) to the file's content.  A content is [kind, ...]:
\*   "object"                 a JSON object with date, scoring_method and
\*                            countries (json.dumps(asdict(snapshot))); the
\*                            country objects may lack the "airports" key
\*   "invalid_json"           text that is not JSON
\*   "invalid_utf8"           bytes that are not UTF-8
\*   "not_an_object"          a JSON array, number or null
\*   "missing_key"            an object without "countries", "date" or
\*                            "scoring_method"
\*   "countries_not_objects"  "countries" holds strings or arrays
\*   "bad_fields"             a country or airport object with missing or
\*                            unexpected fields
NoFiles == [d \in {} |-> <<>>]
NoDirectory == [exists |-> FALSE, files |-> NoFiles]

JsonOf(snapshot) == [kind |-> "object", data |-> snapshot]

\* mutant: an existing file is left as it is
WriteTextKeepsExisting(files, name, content) ==
    [n \in DOMAIN files \cup {name} |-> IF n \in DOMAIN files THEN files[n] ELSE content]

\* path.write_text(content): creates or replaces the one file
WriteText(files, name, content) ==
    [n \in DOMAIN files \cup {name} |-> IF n = name THEN content ELSE files[n]]

\* save_snapshot(results, history_dir, scoring_method, snapshot_date)
SaveSnapshot(dir, results, scoring_method, snapshot_date) ==
    [exists |-> TRUE,
     files |-> WriteText(dir.files, snapshot_date,
                         JsonOf(DailySnapshotOf(results, snapshot_date, scoring_method)))]

\* mutant: a country object without the airports key raises KeyError
RaisedByWithoutAirports(content) ==
    CASE content.kind = "object" ->
            IF \E i \in 1..Len(content.data.countries) :
                  "airports" \notin DOMAIN content.data.countries[i]
            THEN Some("KeyError") ELSE None
      [] content.kind \in {"not_an_object", "bad_fields"} -> Some("TypeError")
      [] content.kind = "invalid_json" -> Some("JSONDecodeError")
      [] content.kind = "invalid_utf8" -> Some("UnicodeDecodeError")
      [] content.kind = "missing_key" -> Some("KeyError")
      [] content.kind = "countries_not_objects" -> Some("AttributeError")

\* the exception the body of the try block raises on a content, or None
RaisedBy(content) ==
    CASE content.kind = "object" -> None
      [] content.kind = "invalid_json" -> Some("JSONDecodeError")
      [] content.kind = "invalid_utf8" -> Some("UnicodeDecodeError")
      [] content.kind = "not_an_object" -> Some("TypeError")
      [] content.kind = "missing_key" -> Some("KeyError")
      [] content.kind = "countries_not_objects" -> Some("AttributeError")
      [] content.kind = "bad_fields" -> Some("TypeError")

\* except (json.JSONDecodeError, KeyError, TypeError)
CaughtExceptions == {"JSONDecodeError", "KeyError", "TypeError"}

\* c.get("airports", [])
AirportsRaw(c) == IF "airports" \in DOMAIN c THEN c.airports ELSE <<>>

\* CountrySnapshot(**country_fields, airports=airports)
ParseCountry(c) ==
    [iso_alpha3 |-> c.iso_alpha3,
     country |-> c.country,
     score |-> c.score,
     exposed_airport_count |-> c.exposed_airport_count,
     airports |-> AirportsRaw(c)]

\* DailySnapshot built from the parsed JSON object
ParseSnapshot(raw) ==
    [date |-> raw.date,
     scoring_method |-> raw.scoring_method,
     countries |-> MapSeq(raw.countries, ParseCountry)]

\* sorted(history_dir.glob("*.json")): the names in ascending order
RECURSIVE SortedNames(_)
SortedNames(names) ==
    IF names = {} THEN <<>>
    ELSE LET least == CHOOSE n \in names : \A m \in names : n <= m
         IN <<least>> \o SortedNames(names \ {least})

\* files[-max_days:]
LastSlice(files, max_days) ==
    LET start == IF max_days = 0 THEN 0
                 ELSE IF Len(files) - max_days < 0 THEN 0 ELSE Len(files) - max_days
    IN SubSeq(files, start + 1, Len(files))

\* the for loop of load_history over the file names: the snapshots appended
\* so far, until a file raises an exception that is not caught
LoadFiles(dir, names, snapshots) ==
    LET exc(i) == RaisedBy(dir.files[names[i]])
        uncaught == {i \in 1..Len(names) :
                        exc(i) # None /\ exc(i)[1] \notin CaughtExceptions}
        first == CHOOSE i \in uncaught : \A j \in uncaught : i <= j
        parsed == SelectSeq(names, LAMBDA n : RaisedBy(dir.files[n]) = None)
    IN IF uncaught # {}
       THEN [raised |-> exc(first), snapshots |-> <<>>]
       ELSE [raised |-> None,
             snapshots |-> snapshots \o
                 [i \in 1..Len(parsed) |-> ParseSnapshot(dir.files[parsed[i]].data)]]

\* load_history(history_dir, max_days): [raised, snapshots]
LoadHistory(dir, max_days) ==
    IF ~dir.exists THEN [raised |-> None, snapshots |-> <<>>]
    ELSE LoadFiles(dir, LastSlice(SortedNames(DOMAIN dir.files), max_days), <<>>)

DefaultMaxDays == 90

\* ------------------------------------------------------------------------
\* scoring.py: sum_airport_scores
\* ------------------------------------------------------------------------
RECURSIVE SumSeq(_)
SumSeq(s) == IF s = <<>> THEN 0 ELSE Head(s) + SumSeq(Tail(s))

\* round(sum(ap.exposure_score), 2), in cents
SumAirportScores(exposed) ==
    Round2(SumSeq([i \in 1..Len(exposed) |-> exposed[i].exposure_score]))

\* ------------------------------------------------------------------------
\* geo.py haversine, shakemap.py interpolate_pga, scoring.py
\* find_exposed_airports
\*
\* Coordinates are whole degrees and every point lies on one meridian or
\* on the equator.  Distances are in metres, contributions before rounding
\* and their sums in millionths, rounded contributions and scores in
\* thousandths, rounded distances in tenths of a kilometre, MMI in tenths,
\* PGA in millionths of %g, pga_g in millionths of g.
\* ------------------------------------------------------------------------
Abs(x) == IF x < 0 THEN -x ELSE x

\* earth_radius_km * 2 * asin(sqrt(a)): on a meridian or on the equator the
\* central angle is the difference in degrees, 111.19492664 km per degree
EarthRadiusKm == 6371
MetresPerDegree == (EarthRadiusKm * 174533 + 5000) \div 10000

Haversine(lat1, lon1, lat2, lon2) ==
    IF lon1 = lon2 THEN MetresPerDegree * Abs(lat2 - lat1)
    ELSE MetresPerDegree * Abs(lon2 - lon1)

\* round(d, 1) of a distance in metres, in tenths of a kilometre
Round1(d) == (d + 50) \div 100

\* round(x, 2) of a value in millionths, in hundredths
Round2Micro(u) ==
    IF u % 1000 = 0 THEN Round2(u \div 1000) ELSE (u + 5000) \div 10000

\* round(x / 100, 6) of a value in millionths, in millionths
Round6Percent(u) == (u + 50) \div 100

\* _heuristic_contribution(magnitude, distance_km, depth_km), in millionths,
\* for the magnitudes (in tenths) and depths (in km) 5.0/10, 6.0/10, 4.8/33
HeuristicContribution(magnitude, d, depth_km) ==
    LET deg == d \div MetresPerDegree
    IN CASE magnitude = 50 /\ depth_km = 10 /\ deg = 0 -> 17270302
         [] magnitude = 50 /\ depth_km = 10 /\ deg = 1 -> 780716
         [] magnitude = 50 /\ depth_km = 10 /\ deg = 2 -> 245787
         [] magnitude = 50 /\ depth_km = 10 /\ deg = 3 -> 108528
         [] magnitude = 50 /\ depth_km = 10 /\ deg >= 4 -> 55117
         [] magnitude = 60 /\ depth_km = 10 /\ deg = 0 -> 54613492
         [] magnitude = 60 /\ depth_km = 10 /\ deg = 1 -> 2468841
         [] magnitude = 60 /\ depth_km = 10 /\ deg = 2 -> 777247
         [] magnitude = 60 /\ depth_km = 10 /\ deg = 3 -> 343196
         [] magnitude = 60 /\ depth_km = 10 /\ deg >= 4 -> 174294
         [] magnitude = 48 /\ depth_km = 33 /\ deg = 0 -> 3305447
         [] magnitude = 48 /\ depth_km = 33 /\ deg = 1 -> 584937
         [] magnitude = 48 /\ depth_km = 33 /\ deg = 2 -> 191670
         [] magnitude = 48 /\ depth_km = 33 /\ deg = 3 -> 85373
         [] magnitude = 48 /\ depth_km = 33 /\ deg >= 4 -> 43505

Lesser(a, b) == IF a < b THEN a ELSE b
Greater(a, b) == IF a > b THEN a ELSE b

\* mutant: the edge of the box is outside
OutOfBoundsOrOnEdge(grid, lat, lon) ==
    \/ lon <= grid.lon_min \/ lon >= grid.lon_max
    \/ lat <= grid.lat_min \/ lat >= grid.lat_max

\* the two early returns of interpolate_pga
OutOfBounds(grid, lat, lon) ==
    \/ lon < grid.lon_min \/ lon > grid.lon_max
    \/ lat < grid.lat_min \/ lat > grid.lat_max

\* interpolate_pga(grid, lat, lon).  col and row are kept as numerators over
\* lon_spacing and lat_spacing, dc and dr likewise; the weighted sums are
\* exact for the grids used, whose values are multiples of the weights'
\* denominator.
InterpolatePga(grid, lat, lon) ==
    IF OutOfBounds(grid, lat, lon) THEN None
    ELSE LET cd == grid.lon_spacing
             rd == grid.lat_spacing
             col == Greater(0, Lesser(lon - grid.lon_min, (grid.nlon - 1) * cd))
             row == Greater(0, Lesser(grid.lat_max - lat, (grid.nlat - 1) * rd))
             c0 == col \div cd
             r0 == row \div rd
             c1 == Lesser(c0 + 1, grid.nlon - 1)
             r1 == Lesser(r0 + 1, grid.nlat - 1)
             dc == col - c0 * cd
             dr == row - r0 * rd
             Bilinear(values) ==
                 (values[r0 + 1][c0 + 1] * (cd - dc) * (rd - dr)
                  + values[r0 + 1][c1 + 1] * dc * (rd - dr)
                  + values[r1 + 1][c0 + 1] * (cd - dc) * dr
                  + values[r1 + 1][c1 + 1] * dc * dr) \div (cd * rd)
         IN Some([pga |-> Bilinear(grid.pga), mmi |-> Bilinear(grid.mmi)])

Distance(ap, eq) == Haversine(ap.latitude, ap.longitude, eq.latitude, eq.longitude)

\* mutant: the radius itself is outside
WithinRadiusExclusive(d, max_distance) == d < max_distance

\* if d <= max_distance_km
WithinRadius(d, max_distance) == d <= max_distance

\* mutant: the grids are never consulted
GridResultWithoutGrids(ap, eq, grids) == None

\* the grid result for one pair, or None when the heuristic applies
GridResult(ap, eq, grids) ==
    IF grids # None /\ DOMAIN grids[1] # {} /\ eq.id \in DOMAIN grids[1]
    THEN InterpolatePga(grids[1][eq.id], ap.latitude, ap.longitude)
    ELSE None

Contribution(ap, eq, grids) ==
    LET result == GridResult(ap, eq, grids)
    IN IF result # None THEN result[1].pga
       ELSE HeuristicContribution(eq.magnitude, Distance(ap, eq), eq.depth_km)

NearbyQuakeOf(ap, eq, grids) ==
    LET result == GridResult(ap, eq, grids)
    IN [earthquake_id |-> eq.id,
        magnitude |-> eq.magnitude,
        latitude |-> eq.latitude,
        longitude |-> eq.longitude,
        depth_km |-> eq.depth_km,
        distance_km |-> Round1(Distance(ap, eq)),
        exposure_contribution |-> 10 * Round2Micro(Contribution(ap, eq, grids)),
        pga_g |-> IF result # None THEN Some(Round6Percent(result[1].pga)) ELSE None,
        mmi |-> IF result # None THEN Some(result[1].mmi) ELSE None]

\* mutant: the list keeps the order of the earthquakes
InsertAtEnd(sorted, q) == Append(sorted, q)

\* nearby.sort(key=lambda q: q.distance_km): stable, ascending
InsertByDistance(sorted, q) ==
    LET n == Cardinality({i \in 1..Len(sorted) : sorted[i].distance_km <= q.distance_km})
    IN SubSeq(sorted, 1, n) \o <<q>> \o SubSeq(sorted, n + 1, Len(sorted))

RECURSIVE SortByDistance(_)
SortByDistance(nearby) ==
    IF nearby = <<>> THEN <<>>
    ELSE InsertByDistance(SortByDistance(SubSeq(nearby, 1, Len(nearby) - 1)),
                          nearby[Len(nearby)])

RECURSIVE MinSeq(_)
MinSeq(s) ==
    IF Len(s) = 1 THEN s[1]
    ELSE LET m == MinSeq(Tail(s)) IN IF s[1] <= m THEN s[1] ELSE m

\* the body of the loop over airports: no entry or one ExposedAirport
ExposedOf(ap, earthquakes_, max_distance, grids) ==
    LET close == SelectSeq(earthquakes_, LAMBDA eq : WithinRadius(Distance(ap, eq), max_distance))
        nearby == [j \in 1..Len(close) |-> NearbyQuakeOf(ap, close[j], grids)]
        score == SumSeq([j \in 1..Len(close) |-> Contribution(ap, close[j], grids)])
        best == MinSeq([j \in 1..Len(close) |-> Distance(ap, close[j])])
    IN IF nearby = <<>> THEN <<>>
       ELSE <<[name |-> ap.name,
               iata_code |-> ap.iata_code,
               latitude |-> ap.latitude,
               longitude |-> ap.longitude,
               closest_quake_distance_km |-> Round1(best),
               nearby_quakes |-> SortByDistance(nearby),
               exposure_score |-> 10 * Round2Micro(score)]>>

FindExposedAirports(airports_, earthquakes_, max_distance, grids) ==
    Flatten([i \in 1..Len(airports_) |->
                ExposedOf(airports_[i], earthquakes_, max_distance, grids)])

\* ------------------------------------------------------------------------
\* scoring.py: calculate_exposure_score, calculate_legacy_score,
\* calculate_risk_score.  A call ends in [raised, value]: an exception or a
\* score in hundredths.
\* ------------------------------------------------------------------------
Return(v) == [raised |-> None, value |-> Some(v)]
Raise(type, message) == [raised |-> Some([type |-> type, message |-> message]), value |-> None]

\* the contributions of the pairs within the radius, airport by airport
PairContributions(airports_, earthquakes_, max_distance) ==
    Flatten([i \in 1..Len(airports_) |->
        LET close == SelectSeq(earthquakes_,
                        LAMBDA eq : Distance(airports_[i], eq) <= max_distance)
        IN [j \in 1..Len(close) |->
               HeuristicContribution(close[j].magnitude,
                                     Distance(airports_[i], close[j]),
                                     close[j].depth_km)]])

CalculateExposureScore(airports_, earthquakes_, max_distance) ==
    Round2Micro(SumSeq(PairContributions(airports_, earthquakes_, max_distance)))

\* round(x, 2) of num / den for whole numbers, in hundredths
Round2Ratio(num, den) == (2 * 100 * num + den) \div (2 * den)

\* avg_magnitude is in hundredths
CalculateLegacyScore(earthquake_count, avg_magnitude, exposed_airport_count) ==
    IF exposed_airport_count = 0
    THEN Raise("ValueError", <<"Cannot compute risk score with zero exposed airports">>)
    ELSE Return(Round2Ratio(earthquake_count * avg_magnitude, 100 * exposed_airport_count))

\* mutant: heuristic is not one of the exposure methods
ExposureMethodsWithoutHeuristic == {"shakemap", "exposure"}

\* if method in ("shakemap", "exposure", "heuristic")
ExposureMethods == {"shakemap", "exposure", "heuristic"}

\* mutant: an unknown method scores 0
UnknownMethodScoresZero(method) == Return(0)

\* raise ValueError(f"Unknown scoring method: {method}")
UnknownMethod(method) == Raise("ValueError", <<"Unknown scoring method: ", method>>)

CalculateRiskScore(airports_, earthquakes_, max_distance, a) ==
    IF a.method \in ExposureMethods
    THEN IF a.exposed_airports # None
         THEN Return(SumAirportScores(a.exposed_airports[1]))
         ELSE Return(CalculateExposureScore(airports_, earthquakes_, max_distance))
    ELSE IF a.method = "legacy"
    THEN IF a.earthquake_count = None \/ a.avg_magnitude = None
              \/ a.exposed_airport_count = None
         THEN Raise("ValueError",
                    <<"Legacy method requires earthquake_count, avg_magnitude, and exposed_airport_count">>)
         ELSE CalculateLegacyScore(a.earthquake_count[1], a.avg_magnitude[1],
                                   a.exposed_airport_count[1])
    ELSE UnknownMethod(a.method)

\* ------------------------------------------------------------------------
\* compute_pager_context
\* ------------------------------------------------------------------------
ALERT_ORDER == [alert \in {"green", "yellow", "orange", "red"} |->
                   CASE alert = "green" -> 1
                     [] alert = "yellow" -> 2
                     [] alert = "orange" -> 3
                     [] alert = "red" -> 4]

\* ALERT_ORDER.get(alert, 0)
AlertRank(alert) == IF alert \in DOMAIN ALERT_ORDER THEN ALERT_ORDER[alert] ELSE 0

\* highest_alert or ""
OrEmpty(alert) == IF alert = None THEN "" ELSE alert[1]

OutranksOrTies(alert, highest_alert) ==
    AlertRank(alert) >= AlertRank(OrEmpty(highest_alert))

\* ALERT_ORDER.get(s.alert, 0) > ALERT_ORDER.get(highest_alert or "", 0)
Outranks(alert, highest_alert) ==
    AlertRank(alert) > AlertRank(OrEmpty(highest_alert))

\* the truth value of an optional string: None and "" are false
Truthy(alert) == alert # None /\ alert[1] # ""

NoPagerContext ==
    [highest_alert |-> None, max_felt |-> 0, has_tsunami_warning |-> FALSE,
     significant_count |-> 0]

\* one pass of the loop body for the earthquake eq
PagerStep(acc, eq, significant_quakes) ==
    IF eq.id \in DOMAIN significant_quakes
    THEN LET s == significant_quakes[eq.id]
         IN  [highest_alert |->
                  IF Truthy(s.alert) /\ Outranks(s.alert[1], acc.highest_alert)
                  THEN s.alert ELSE acc.highest_alert,
              max_felt |-> IF s.felt > acc.max_felt THEN s.felt ELSE acc.max_felt,
              has_tsunami_warning |-> acc.has_tsunami_warning \/ s.tsunami,
              significant_count |-> acc.significant_count + 1]
    ELSE acc

RECURSIVE PagerLoop(_, _, _, _)
PagerLoop(acc, earthquakes_, i, significant_quakes) ==
    IF i > Len(earthquakes_) THEN acc
    ELSE PagerLoop(PagerStep(acc, earthquakes_[i], significant_quakes),
                   earthquakes_, i + 1, significant_quakes)

ComputePagerContext(earthquakes_, significant_quakes) ==
    PagerLoop(NoPagerContext, earthquakes_, 1, significant_quakes)

\* ------------------------------------------------------------------------
\* compute_seismic_stats.  time_ms is in hours since the epoch, magnitudes
\* are in tenths and the average in hundredths; depths are whole kilometres
\* and coordinates whole degrees, which round(x, 1) and round(x, 4) keep.
\* ------------------------------------------------------------------------
\* the proleptic Gregorian date <<year, month, day>> of a day number
\* counted from 1970-01-01
CivilFromDays(days) ==
    LET z == days + 719468
        era == z \div 146097
        doe == z - era * 146097
        yoe == (doe - doe \div 1460 + doe \div 36524 - doe \div 146096) \div 365
        doy == doe - (365 * yoe + yoe \div 4 - yoe \div 100)
        mp == (5 * doy + 2) \div 153
        d == doy - (153 * mp + 2) \div 5 + 1
        m == IF mp < 10 THEN mp + 3 ELSE mp - 9
        y == yoe + era * 400 + (IF m <= 2 THEN 1 ELSE 0)
    IN  <<y, m, d>>

\* datetime.fromtimestamp(time_ms / 1000, tz=timezone.utc).strftime("%Y-%m-%d"):
\* datetime holds the years 1 to 9999 and raises ValueError outside them
FromTimestamp(time_ms) ==
    LET date == CivilFromDays(time_ms \div 24)
    IN  IF date[1] < 1 \/ date[1] > 9999
        THEN Raise("ValueError", <<"year ", date[1], " is out of range">>)
        ELSE Return(date)

\* max(earthquakes, key=magnitude): the first element with the largest key
RECURSIVE MaxByMagnitude(_, _, _)
MaxByMagnitude(earthquakes_, i, best) ==
    IF i > Len(earthquakes_) THEN best
    ELSE MaxByMagnitude(earthquakes_, i + 1,
                        IF earthquakes_[i].magnitude > best.magnitude
                        THEN earthquakes_[i] ELSE best)

Strongest(earthquakes_) == MaxByMagnitude(earthquakes_, 2, earthquakes_[1])

ComputeSeismicStats(earthquakes_) ==
    IF earthquakes_ = <<>>
    THEN Raise("ValueError", <<"Cannot compute stats for empty earthquake list">>)
    ELSE LET n == Len(earthquakes_)
             avg_mag == Round2Ratio(SumSeq([i \in 1..n |-> earthquakes_[i].magnitude]),
                                    10 * n)
             strongest == Strongest(earthquakes_)
             s_date == FromTimestamp(strongest.time_ms)
         IN  IF s_date.raised # None THEN s_date
             ELSE Return(<<avg_mag,
                           [magnitude |-> strongest.magnitude,
                            date |-> s_date.value[1],
                            depth_km |-> strongest.depth_km,
                            latitude |-> strongest.latitude,
                            longitude |-> strongest.longitude]>>)

\* ------------------------------------------------------------------------
\* felt_radius_km.  Magnitudes are in tenths, c in thousandths, depths in
\* whole kilometres, radii inside the function in metres and the result in
\* tenths of a kilometre.
\* ------------------------------------------------------------------------
MIN_FELT_RADIUS_KM == 50

\* c = 3.70 + 1.17 * magnitude - _MMI_THRESHOLD
FeltC(magnitude) == 3700 + 117 * magnitude - 5000

\* the radius r the Newton loop ends with, in metres, for the magnitudes
\* 1.2, 2.0, 3.0, 4.0, 4.5, 4.8, 5.0 and 5.2
SolvedRadius(magnitude) ==
    CASE magnitude = 12 -> 1081
      [] magnitude = 20 -> 2273
      [] magnitude = 30 -> 5745
      [] magnitude = 40 -> 14418
      [] magnitude = 45 -> 22761
      [] magnitude = 48 -> 29869
      [] magnitude = 50 -> 35768
      [] magnitude = 52 -> 42777

\* the largest s of lo..hi with s * s <= x
RECURSIVE IsqrtIn(_, _, _)
IsqrtIn(lo, hi, x) ==
    IF lo = hi THEN lo
    ELSE LET mid == (lo + hi + 1) \div 2
         IN  IF mid * mid <= x THEN IsqrtIn(mid, hi, x) ELSE IsqrtIn(lo, mid - 1, x)

\* math.sqrt of a value in square metres, in metres
Sqrt(x) == IsqrtIn(0, 46340, x)

\* round(d_surface, 1) of a value in metres, in tenths of a kilometre
Round1Metres(d) == (d + 50) \div 100

\* mutant: the result is not raised to the minimum
WithoutMinimum(d) == d

\* max(round(d_surface, 1), _MIN_FELT_RADIUS_KM)
AtLeastMinimum(d) == Greater(d, MIN_FELT_RADIUS_KM)

FeltRadiusKm(magnitude, depth_km) ==
    IF FeltC(magnitude) <= 0 THEN MIN_FELT_RADIUS_KM
    ELSE LET r_hypo == SolvedRadius(magnitude)
             depth == 1000 * Greater(depth_km, 0)
         IN  IF r_hypo <= depth THEN MIN_FELT_RADIUS_KM
             ELSE AtLeastMinimum(Round1Metres(Sqrt(r_hypo * r_hypo - depth * depth)))

\* ------------------------------------------------------------------------
\* _parse_grid_xml and fetch_shakemap_grids.  A grid.xml document is a
\* record: the encoding its XML declaration names, whether its text is
\* well-formed, its grid_specification attributes (None when the element is
\* missing) and the lines of its grid_data (None when the element or its
\* text is missing).  An attribute value or a field of a line is Some(n), the
\* text of the number n, or None, a text that is no number.
\* ------------------------------------------------------------------------
\* the encodings ET.fromstring has a decoder for
KnownEncodings == {"UTF-8", "ISO-8859-1"}

GridAttributes ==
    {"lon_min", "lon_max", "lat_min", "lat_max",
     "nominal_lon_spacing", "nominal_lat_spacing", "nlon", "nlat"}

IsNumber(token) == token # None

\* float(token) and int(token) of the text of a number
Float(token) == token[1]

\* the lines with at least four fields
RECURSIVE DataLines(_)
DataLines(lines) ==
    IF lines = <<>> THEN <<>>
    ELSE IF Len(Head(lines)) < 4 THEN DataLines(Tail(lines))
    ELSE <<Head(lines)>> \o DataLines(Tail(lines))

\* np.array(flat).reshape(nlat, nlon)
Reshape(flat, nlat, nlon) ==
    [r \in 1..nlat |-> [c \in 1..nlon |-> flat[(r - 1) * nlon + c]]]

\* the body of the try statement: what it returns or raises
ParseBody(xml, event_id) ==
    IF xml.encoding \notin KnownEncodings
    THEN Raise("LookupError", <<"unknown encoding: ", xml.encoding>>)
    ELSE IF ~xml.well_formed THEN Raise("ParseError", <<"not well-formed">>)
    ELSE IF xml.grid_specification = None THEN Return(None)
    ELSE LET attrib == xml.grid_specification[1]
         IN
         IF \E name \in GridAttributes : name \notin DOMAIN attrib
         THEN Raise("KeyError", <<"attribute">>)
         ELSE IF \E name \in GridAttributes : ~IsNumber(attrib[name])
         THEN Raise("ValueError", <<"could not convert string to float">>)
         ELSE IF xml.grid_data = None THEN Return(None)
         ELSE LET lines == DataLines(xml.grid_data[1])
                  nlon == Float(attrib["nlon"])
                  nlat == Float(attrib["nlat"])
              IN
              IF \E i \in 1..Len(lines) : ~IsNumber(lines[i][3]) \/ ~IsNumber(lines[i][4])
              THEN Raise("ValueError", <<"could not convert string to float">>)
              ELSE IF Len(lines) # nlon * nlat THEN Return(None)
              ELSE IF nlon < 0 \/ nlat < 0
              THEN Raise("ValueError", <<"negative dimensions are not allowed">>)
              ELSE Return(Some(
                       [event_id |-> event_id,
                        lon_min |-> Float(attrib["lon_min"]), lat_min |-> Float(attrib["lat_min"]),
                        lon_max |-> Float(attrib["lon_max"]), lat_max |-> Float(attrib["lat_max"]),
                        lon_spacing |-> Float(attrib["nominal_lon_spacing"]),
                        lat_spacing |-> Float(attrib["nominal_lat_spacing"]),
                        nlon |-> nlon, nlat |-> nlat,
                        pga |-> Reshape([i \in 1..Len(lines) |-> Float(lines[i][4])], nlat, nlon),
                        mmi |-> Reshape([i \in 1..Len(lines) |-> Float(lines[i][3])], nlat, nlon)]))

\* except (ET.ParseError, ValueError, KeyError)
ParseCaught == {"ParseError", "ValueError", "KeyError"}

\* _parse_grid_xml(xml_bytes, event_id): Return(None), Return(Some(grid))
\* or the exception that leaves the function
ParseGridXml(xml, event_id) ==
    LET body == ParseBody(xml, event_id)
    IN  IF body.raised # None /\ body.raised[1].type \in ParseCaught
        THEN Return(None)
        ELSE body

\* "shakemap" in event_types.get(eid, "").split(",")
TargetIds(earthquake_ids, event_types) ==
    {eid \in earthquake_ids :
        eid \in DOMAIN event_types /\ "shakemap" \in Range(event_types[eid])}

\* the event ids of the model in the order of sorted()
EventIds == <<"us1", "us2", "us3">>

IdOrder(id) == CHOOSE k \in 1..Len(EventIds) : EventIds[k] = id

\* sorted(target_ids) of a set of ids
RECURSIVE SortedIds(_)
SortedIds(ids) ==
    IF ids = {} THEN <<>>
    ELSE LET first == CHOOSE a \in ids : \A b \in ids : IdOrder(a) <= IdOrder(b)
         IN  <<first>> \o SortedIds(ids \ {first})

\* one pass of the loop of fetch_shakemap_grids without the cache, for the
\* event eid whose requests end as the network says: the grids after the
\* pass, or the exception that leaves the function
FetchOne(grids, eid, answer) ==
    IF answer.detail # "ok" THEN Return(grids)
    ELSE IF answer.grid_url = None THEN Return(grids)
    ELSE IF answer.download # "ok" THEN Return(grids)
    ELSE LET parsed == ParseGridXml(answer.content, eid)
         IN  IF parsed.raised # None THEN parsed
             ELSE IF parsed.value[1] # None
             THEN Return([id \in DOMAIN grids \cup {eid} |->
                             IF id = eid THEN parsed.value[1][1] ELSE grids[id]])
             ELSE Return(grids)

RECURSIVE FetchLoop(_, _, _)
FetchLoop(grids, ids, network) ==
    IF ids = <<>> THEN Return(grids)
    ELSE LET pass == FetchOne(grids, Head(ids), network[Head(ids)])
         IN  IF pass.raised # None THEN pass
             ELSE FetchLoop(pass.value[1], Tail(ids), network)

\* fetch_shakemap_grids(earthquake_ids, event_types, session, use_cache=False)
FetchShakemapGrids(earthquake_ids, event_types, network) ==
    FetchLoop(<<>>, SortedIds(TargetIds(earthquake_ids, event_types)), network)

\* ------------------------------------------------------------------------
\* fetchers/airports.py fetch_airports and pipeline.py run_pipeline.  The
\* answers of the services are arguments: the earthquakes and event types
\* fetch_earthquakes returns, the significant events, the answers of the
\* ShakeMap requests, the rows of the airports CSV and the metadata of the
\* countries (None for a country whose request fails).
\* ------------------------------------------------------------------------
\* iata_code of a row: the code, or "N/A" when the cell is empty
IataOfCell(cell) == IF cell = None \/ cell = Some("") THEN "N/A" ELSE cell[1]

AirportOfRow(row, airport_type) ==
    [name |-> row.name, iata_code |-> IataOfCell(row.iata_code),
     latitude |-> row.latitude_deg, longitude |-> row.longitude_deg,
     iso_country |-> row.iso_country, airport_type |-> airport_type]

\* fetch_airports(airport_type, country_codes) on the rows of the CSV
FetchAirports(csv, airport_type, country_codes) ==
    LET filtered == SelectSeq(csv, LAMBDA row :
                        row.type = airport_type /\ row.iso_country \in country_codes)
    IN  [i \in 1..Len(filtered) |-> AirportOfRow(filtered[i], airport_type)]

\* reverse_geocode_batch: the country of an epicentre; the model's world
\* has JP up to latitude 1 and PH north of it
Geocode(latitude, longitude) == IF latitude <= 1 THEN "JP" ELSE "PH"

\* the country codes of the model in the order of sorted()
Alpha2Codes == <<"JP", "KR", "PH">>

CountryOrder(cc) == CHOOSE k \in 1..Len(Alpha2Codes) : Alpha2Codes[k] = cc

RECURSIVE SortedCountries(_)
SortedCountries(codes) ==
    IF codes = {} THEN <<>>
    ELSE LET first == CHOOSE a \in codes : \A b \in codes : CountryOrder(a) <= CountryOrder(b)
         IN  <<first>> \o SortedCountries(codes \ {first})

\* mutant: ascending
InsertByScoreAscending(sorted, r) ==
    LET n == Cardinality({i \in 1..Len(sorted) :
                             sorted[i].seismic_hub_risk_score <= r.seismic_hub_risk_score})
    IN  SubSeq(sorted, 1, n) \o <<r>> \o SubSeq(sorted, n + 1, Len(sorted))

\* results.sort(key=seismic_hub_risk_score, reverse=True): stable
InsertByScore(sorted, r) ==
    LET n == Cardinality({i \in 1..Len(sorted) :
                             sorted[i].seismic_hub_risk_score >= r.seismic_hub_risk_score})
    IN  SubSeq(sorted, 1, n) \o <<r>> \o SubSeq(sorted, n + 1, Len(sorted))

RECURSIVE SortByScore(_)
SortByScore(results) ==
    IF results = <<>> THEN <<>>
    ELSE InsertByScore(SortByScore(SubSeq(results, 1, Len(results) - 1)),
                       results[Len(results)])

\* what a run has done so far: the exception that ended it, the results
\* appended, and the arguments of its calls of compute_seismic_stats and
\* calculate_risk_score
PipelineStart == [raised |-> None, results |-> <<>>, stats_calls |-> <<>>, risk_calls |-> <<>>]

\* mutant: a country without exposed airports is scored, too
NothingExposedIgnored(exposed_) == FALSE

\* if not exposed: continue
NothingExposed(exposed_) == exposed_ = <<>>

\* results.append(CountryRiskResult(...)) of one pass, or the exception
\* that ends the run
CountryResult(acc, cc, cd, cc_quakes, exposed_, stats, pager, risk_args, risk_score) ==
    IF stats.raised # None
    THEN [acc EXCEPT !.raised = stats.raised,
                     !.stats_calls = Append(@, cc_quakes)]
    ELSE IF risk_score.raised # None
    THEN [acc EXCEPT !.raised = risk_score.raised,
                     !.stats_calls = Append(@, cc_quakes),
                     !.risk_calls = Append(@, risk_args)]
    ELSE [acc EXCEPT
             !.stats_calls = Append(@, cc_quakes),
             !.risk_calls = Append(@, risk_args),
             !.results = Append(@,
                 [country |-> cd.common, iso_alpha2 |-> cc, iso_alpha3 |-> cd.cca3,
                  earthquake_count |-> Len(cc_quakes),
                  avg_magnitude |-> stats.value[1][1],
                  strongest_earthquake |-> stats.value[1][2],
                  highest_pager_alert |-> pager.highest_alert,
                  max_felt_reports |-> pager.max_felt,
                  tsunami_warning_issued |-> pager.has_tsunami_warning,
                  significant_events_count |-> pager.significant_count,
                  exposed_airports |-> exposed_,
                  earthquakes |-> cc_quakes,
                  seismic_hub_risk_score |-> risk_score.value[1]])]

\* calculate_risk_score(...) of one pass, on the arguments risk_args
CountryRisk(acc, cc, cd, config, cc_airports, cc_quakes, exposed_, stats, pager, risk_args) ==
    CountryResult(acc, cc, cd, cc_quakes, exposed_, stats, pager, risk_args,
                  IF stats.raised # None THEN stats
                  ELSE CalculateRiskScore(cc_airports, cc_quakes,
                                          config.max_airport_distance_km, risk_args))

\* compute_seismic_stats and compute_pager_context of one pass
CountryStats(acc, cc, cd, config, world, cc_airports, cc_quakes, exposed_, stats) ==
    CountryRisk(acc, cc, cd, config, cc_airports, cc_quakes, exposed_, stats,
                ComputePagerContext(cc_quakes, world.significant_quakes),
                [method |-> config.scoring_method,
                 earthquake_count |-> Some(Len(cc_quakes)),
                 avg_magnitude |-> IF stats.raised # None THEN None
                                   ELSE Some(stats.value[1][1]),
                 exposed_airport_count |-> Some(Len(exposed_)),
                 exposed_airports |-> Some(exposed_)])

\* the pass from find_exposed_airports on
CountryExposed(acc, cc, cd, config, world, cc_airports, cc_quakes, exposed_) ==
    IF NothingExposed(exposed_) THEN acc
    ELSE CountryStats(acc, cc, cd, config, world, cc_airports, cc_quakes, exposed_,
                      ComputeSeismicStats(cc_quakes))

\* the pass for the quakes and the airports of the country
CountryQuakes(acc, cc, config, world, cc_airports, cc_quakes, grids) ==
    CountryExposed(acc, cc, world.rest_data[cc][1], config, world, cc_airports, cc_quakes,
                   FindExposedAirports(cc_airports, cc_quakes, config.max_airport_distance_km,
                       IF config.scoring_method = "shakemap" THEN Some(grids) ELSE None))

\* one pass of the loop of step 7, for the country cc
CountryPass(acc, cc, config, world, earthquakes_, all_airports, grids) ==
    IF world.rest_data[cc] = None THEN acc
    ELSE CountryQuakes(acc, cc, config, world,
                       SelectSeq(all_airports, LAMBDA ap : ap.iso_country = cc),
                       SelectSeq(earthquakes_, LAMBDA eq : eq.country_code = cc),
                       grids)

RECURSIVE CountryLoop(_, _, _, _, _, _, _)
CountryLoop(acc, codes, config, world, earthquakes_, all_airports, grids) ==
    IF codes = <<>> \/ acc.raised # None THEN acc
    ELSE CountryLoop(CountryPass(acc, Head(codes), config, world, earthquakes_,
                                 all_airports, grids),
                     Tail(codes), config, world, earthquakes_, all_airports, grids)

\* steps 6 and 7 and the final sort, for the airports of the qualifying
\* countries
ScoreCountries(config, world, earthquakes_, all_airports, grids) ==
    [CountryLoop(PipelineStart,
                 SortedCountries({all_airports[i].iso_country : i \in 1..Len(all_airports)}),
                 config, world, earthquakes_, all_airports, grids)
        EXCEPT !.results = SortByScore(@)]

\* steps 4 and 5: the ShakeMap grids and the airports of the qualifying
\* countries
WithGrids(config, world, earthquakes_, qualifying_countries, fetched) ==
    IF fetched.raised # None THEN [PipelineStart EXCEPT !.raised = fetched.raised]
    ELSE ScoreCountries(config, world, earthquakes_,
                        FetchAirports(world.csv, config.airport_type, qualifying_countries),
                        fetched.value[1])

TargetsOf(world, earthquakes_) ==
    DOMAIN world.significant_quakes \cap {earthquakes_[i].id : i \in 1..Len(earthquakes_)}

\* step 3: the countries with at least min_quakes_per_country quakes
Qualified(config, world, earthquakes_, qualifying_countries) ==
    IF qualifying_countries = {} THEN PipelineStart
    ELSE WithGrids(config, world, earthquakes_, qualifying_countries,
                   IF config.scoring_method = "shakemap" /\ TargetsOf(world, earthquakes_) # {}
                   THEN FetchShakemapGrids(TargetsOf(world, earthquakes_),
                                           world.event_types, world.network)
                   ELSE Return(<<>>))

\* Counter(eq.country_code for eq in earthquakes)
CountryCounts(earthquakes_) ==
    [cc \in {earthquakes_[i].country_code : i \in 1..Len(earthquakes_)} |->
        Cardinality({i \in 1..Len(earthquakes_) : earthquakes_[i].country_code = cc})]

Geocoded(config, world, earthquakes_) ==
    Qualified(config, world, earthquakes_,
              {cc \in DOMAIN CountryCounts(earthquakes_) :
                  CountryCounts(earthquakes_)[cc] >= config.min_quakes_per_country})

\* run_pipeline(config): [raised, results, stats_calls, risk_calls], results
\* being the list returned when raised is None
RunPipeline(config, world) ==
    IF world.earthquakes = <<>> THEN PipelineStart
    ELSE Geocoded(config, world,
            [i \in 1..Len(world.earthquakes) |->
                [id |-> world.earthquakes[i].id,
                 magnitude |-> world.earthquakes[i].magnitude,
                 latitude |-> world.earthquakes[i].latitude,
                 longitude |-> world.earthquakes[i].longitude,
                 depth_km |-> world.earthquakes[i].depth_km,
                 time_ms |-> world.earthquakes[i].time_ms,
                 country_code |-> Geocode(world.earthquakes[i].latitude,
                                          world.earthquakes[i].longitude)]])

\* ------------------------------------------------------------------------
\* cache.py cache_get, cache_put.  A file name is the sequence of its
\* parts between the dots; the cache directory maps the names of its files
\* to their contents.  A content is a record: kind "bytes" for bytes that
\* are no JSON text, "not_utf8" for bytes that are no UTF-8 text, "array"
\* for the JSON text of a list and "object" for the JSON text of an object,
\* whose timestamp is None (no such key), Some(None) (a value that is no
\* number) or Some(Some(t)).
\* ------------------------------------------------------------------------
\* cache_dir / f"{key}.meta"
MetaPath(key) == key \o <<"meta">>

BytesOf(text) == [kind |-> "bytes", text |-> text, timestamp |-> None]

\* json.dumps({"timestamp": t})
MetaOf(t) == [kind |-> "object", text |-> "", timestamp |-> Some(Some(t))]

WriteFile(dir, name, content) ==
    [f \in DOMAIN dir \cup {name} |-> IF f = name THEN content ELSE dir[f]]

\* cache_put(key, data) at the time now: the directory afterwards
CachePut(dir, key, data, now) ==
    WriteFile(WriteFile(dir, key, data), MetaPath(key), MetaOf(now))

\* meta_path.read_text(), json.loads and the comparison of the try
\* statement: "fresh", "expired", or the exception raised
ReadMeta(content, now, max_age_seconds) ==
    CASE content.kind = "not_utf8" -> "UnicodeDecodeError"
      [] content.kind = "bytes" -> "JSONDecodeError"
      [] content.kind = "array" -> "TypeError"
      [] content.kind = "object" ->
            IF content.timestamp = None THEN "KeyError"
            ELSE IF content.timestamp[1] = None THEN "TypeError"
            ELSE IF now - content.timestamp[1][1] > max_age_seconds THEN "expired"
            ELSE "fresh"

\* except (json.JSONDecodeError, KeyError)
CacheCaught == {"JSONDecodeError", "KeyError"}

\* cache_get(key, max_age_seconds) at the time now
CacheGet(dir, key, max_age_seconds, now) ==
    IF key \notin DOMAIN dir \/ MetaPath(key) \notin DOMAIN dir THEN Return(None)
    ELSE LET meta == ReadMeta(dir[MetaPath(key)], now, max_age_seconds)
         IN  IF meta = "fresh" THEN Return(Some(dir[key]))
             ELSE IF meta = "expired" \/ meta \in CacheCaught THEN Return(None)
             ELSE Raise(meta, <<"metadata of ", key>>)

\* ------------------------------------------------------------------------
\* shakemap.py interpolate_pga on a grid that _parse_grid_xml returned:
\* what it returns or raises
\* ------------------------------------------------------------------------
\* the corner indices of interpolate_pga (spacings greater than zero)
CornerIndices(grid, lat, lon) ==
    LET cd == grid.lon_spacing
        rd == grid.lat_spacing
        col == Greater(0, Lesser(lon - grid.lon_min, (grid.nlon - 1) * cd))
        row == Greater(0, Lesser(grid.lat_max - lat, (grid.nlat - 1) * rd))
        c0 == col \div cd
        r0 == row \div rd
    IN [c0 |-> c0, r0 |-> r0,
        c1 |-> Lesser(c0 + 1, grid.nlon - 1),
        r1 |-> Lesser(r0 + 1, grid.nlat - 1)]

\* an index numpy accepts for an axis of length n (negative ones count
\* from the end)
IndexAccepted(i, n) == -n <= i /\ i < n

\* the divisions of lines 53 and 55 by a spacing of 0.0
ZeroSpacing(grid) == grid.lon_spacing = 0 \/ grid.lat_spacing = 0

InterpolateOutcome(grid, lat, lon) ==
    IF OutOfBounds(grid, lat, lon) THEN Return(None)
    ELSE IF ZeroSpacing(grid)
    THEN Raise("ZeroDivisionError", <<"float division by zero">>)
    ELSE LET ix == CornerIndices(grid, lat, lon)
         IN IF /\ IndexAccepted(ix.r0, grid.nlat) /\ IndexAccepted(ix.r1, grid.nlat)
               /\ IndexAccepted(ix.c0, grid.nlon) /\ IndexAccepted(ix.c1, grid.nlon)
            THEN Return(InterpolatePga(grid, lat, lon))
            ELSE Raise("IndexError", <<"index out of bounds">>)

\* _parse_grid_xml(xml, event_id), then interpolate_pga at (lat, lon) on the
\* grid it returned, as find_exposed_airports does for a grid of the run
InterpolateParsed(xml, event_id, lat, lon) ==
    LET parsed == ParseGridXml(xml, event_id)
    IN [parsed |-> parsed,
        interpolated |->
            IF parsed.raised = None /\ parsed.value[1] # None
            THEN Some(InterpolateOutcome(parsed.value[1][1], lat, lon))
            ELSE None]

\* ------------------------------------------------------------------------
\* Input domains
\* ------------------------------------------------------------------------
\* Exposure scores before rounding (millis): 0.572 and 1.071
RawScores == {572, 1071}

ExposedAirportOf(iata, name, raw) ==
    [iata_code |-> iata, name |-> name, exposure_score |-> raw]

\* Airports of the two countries.  "N/A" is the code fetch_airports gives
\* to every airport without an IATA code.
OptionalAirport(iata, name, raws) ==
    {<<>>} \cup {<<ExposedAirportOf(iata, name, raw)>> : raw \in raws}

JpnAirportLists ==
    {a \o b : a \in OptionalAirport("NRT", "Narita", RawScores),
              b \in OptionalAirport("N/A", "Chofu", {572})} \ {<<>>}
PhlAirportLists == OptionalAirport("N/A", "Basco", {572}) \ {<<>>}

\* CountryRiskResult as run_pipeline builds it for the exposure methods:
\* the score is the sum of the airport scores
CountryRiskResultOf(iso3, country, exposed) ==
    [iso_alpha3 |-> iso3,
     country |-> country,
     seismic_hub_risk_score |-> 10 * SumAirportScores(exposed),
     exposed_airports |-> exposed]

OptionalCountry(iso3, country, lists) ==
    {<<>>} \cup {<<CountryRiskResultOf(iso3, country, l)>> : l \in lists}

\* results of one pipeline run (Japan always scores at least as high as the
\* Philippines here, so the descending sort leaves it first)
ResultsDomain ==
    {j \o p : j \in OptionalCountry("JPN", "Japan", JpnAirportLists),
              p \in OptionalCountry("PHL", "Philippines", PhlAirportLists)}

ScoringMethod == "exposure"

\* results of the runs that are replayed against a stored history
RunResults ==
    {r \in ResultsDomain :
        /\ \A c \in Range(r) : \A ap \in Range(c.exposed_airports) : ap.name # "Chofu"
        /\ Len(r) = 2 => \A c \in Range(r) : c.seismic_hub_risk_score = 570}

\* contents a file of the history directory can have: snapshots written by
\* save_snapshot, a snapshot of the schema without airports, and files that
\* do not parse
StripAirports(snapshot) ==
    [snapshot EXCEPT !.countries =
        [i \in 1..Len(snapshot.countries) |->
            [f \in DOMAIN snapshot.countries[i] \ {"airports"} |-> snapshot.countries[i][f]]]]

UnparseableKinds ==
    {"invalid_json", "invalid_utf8", "not_an_object", "missing_key",
     "countries_not_objects", "bad_fields"}

StoredResults ==
    {r \in RunResults :
        /\ r # <<>> /\ r[1].iso_alpha3 = "JPN"
        /\ \A c \in Range(r) : c.seismic_hub_risk_score = 570}

FileContents(date) ==
    {JsonOf(DailySnapshotOf(r, date, ScoringMethod)) : r \in StoredResults}
    \cup {JsonOf(StripAirports(DailySnapshotOf(r, date, ScoringMethod))) :
             r \in {x \in StoredResults : Len(x) = 2}}
    \cup {[kind |-> k] : k \in UnparseableKinds}

DirectoryDomain ==
    {NoDirectory} \cup
    UNION {{[exists |-> TRUE, files |-> f] :
               f \in {g \in [dates -> UNION {FileContents(d) : d \in dates}] :
                          \A d \in dates : g[d] \in FileContents(d)}} :
           dates \in SUBSET (1..MaxDate)}

\* strictly ascending date sequences of length n
DateSeqs(n) ==
    {ds \in [1..n -> 1..MaxDate] : \A i \in 1..n : \A j \in 1..n : i < j => ds[i] < ds[j]}

\* histories: snapshots of earlier runs, oldest first, one per date
HistoryDomain ==
    UNION {
        {[i \in 1..n |-> DailySnapshotOf(rs[i], ds[i], ScoringMethod)] :
            rs \in [1..n -> ResultsDomain], ds \in DateSeqs(n)} :
        n \in 0..MaxHist}

\* ------------------------------------------------------------------------
\* State
\* ------------------------------------------------------------------------
VARIABLES
    history,            \* compute_trends: argument history
    current_results,    \* compute_trends: argument current_results
    today,              \* the UTC date the clock shows
    trends,             \* compute_trends: return value
    pc,                 \* the operation that ran last
    history_dir,        \* the history directory on disk
    max_days,           \* load_history: argument max_days
    loaded,             \* load_history: [raised, snapshots]
    seen,               \* codes that the results of some earlier run held
    saved,              \* per date, the results handed to the last direct
                        \* save_snapshot call, and whether it replaced a file
    airports,           \* find_exposed_airports: argument airports
    earthquakes,        \* find_exposed_airports: argument earthquakes
    max_distance_km,    \* find_exposed_airports: argument, in metres
    shakemap_grids,     \* find_exposed_airports: argument, None or a dict
    exposed,            \* find_exposed_airports: return value
    args,               \* the further arguments of the scoring function called
    result,             \* what that call returned or raised
    cache_dir,          \* the files of the cache directory
    clock,              \* time.time(), in seconds
    stored,             \* per key, the bytes of the last cache_put, its time, and
                        \* whether the metadata file is still the one it wrote
    run_count,          \* app.state.run_count
    last_run,           \* app.state.last_run
    requests            \* the GET /risk requests being served

scoring_vars ==
    <<airports, earthquakes, max_distance_km, shakemap_grids, exposed, args, result>>

history_vars == <<history, current_results, today, trends,
                  history_dir, max_days, loaded, seen, saved>>

vars == <<history, current_results, today, trends, pc,
          history_dir, max_days, loaded, seen, saved,
          airports, earthquakes, max_distance_km, shakemap_grids, exposed,
          args, result, cache_dir, clock, stored, run_count, last_run, requests>>

service_vars == <<cache_dir, clock, stored, run_count, last_run, requests>>

\* no cache and no server
NoService ==
    /\ cache_dir = <<>>
    /\ clock = 0
    /\ stored = <<>>
    /\ run_count = 0
    /\ last_run = None
    /\ requests = <<>>

NotLoaded == [raised |-> None, snapshots |-> <<>>]

NoCall ==
    /\ args = <<>>
    /\ result = <<>>

NoScoring ==
    /\ NoCall
    /\ airports = <<>>
    /\ earthquakes = <<>>
    /\ max_distance_km = 0
    /\ shakemap_grids = None
    /\ exposed = <<>>

NoDisk ==
    /\ NoScoring
    /\ history_dir = NoDirectory
    /\ max_days = 0
    /\ loaded = NotLoaded
    /\ seen = {}
    /\ saved = NoFiles

\* ------------------------------------------------------------------------
\* compute_trends called on arbitrary arguments
\* ------------------------------------------------------------------------
InitTrends ==
    /\ history \in HistoryDomain
    /\ current_results \in ResultsDomain
    /\ today = MaxDate + 1
    /\ trends = None
    /\ pc = "start"
    /\ NoDisk
    /\ NoService

CallComputeTrends ==
    /\ pc = "start"
    /\ trends' = ComputeTrends(history, current_results, today)
    /\ pc' = "compute_trends"
    /\ UNCHANGED <<history, current_results, today>>
    /\ UNCHANGED <<history_dir, max_days, loaded, seen, saved>>
    /\ UNCHANGED scoring_vars
    /\ UNCHANGED service_vars

NextTrends == CallComputeTrends

SpecTrends == InitTrends /\ [][NextTrends]_vars

\* ------------------------------------------------------------------------
\* cli.py run with --history-dir, save_snapshot and load_history calls
\* ------------------------------------------------------------------------
KeysOf(results) ==
    {r.iso_alpha3 : r \in Range(results)}
    \cup {e.ap.iata_code : e \in Range(ResultAirports(results))}

\* mutant: the snapshot dated today stays in the history
PriorHistoryKeepsToday(snapshots, date) == snapshots

\* prior_history = [s for s in history if s.date != today_str]
PriorHistory(snapshots, date) == SelectSeq(snapshots, LAMBDA snap : snap.date # date)

\* run: the pipeline returned results.  Without results the command exits
\* before the history is touched; an exception of load_history ends it.
Run(results) ==
    LET h == LoadHistory(history_dir, DefaultMaxDays)
        prior_history == PriorHistory(h.snapshots, today)
    IN /\ UNCHANGED scoring_vars
       /\ UNCHANGED service_vars
       /\ IF results = <<>>
          THEN /\ pc' = "run_no_results"
               /\ trends' = None
               /\ UNCHANGED <<history, current_results, today, history_dir,
                              max_days, loaded, seen, saved>>
          ELSE IF h.raised # None
          THEN /\ pc' = "run_raised"
               /\ trends' = None
               /\ loaded' = h
               /\ max_days' = DefaultMaxDays
               /\ UNCHANGED <<history, current_results, today, history_dir, seen, saved>>
          ELSE /\ pc' = "run"
               /\ loaded' = h
               /\ max_days' = DefaultMaxDays
               /\ history' = prior_history
               /\ current_results' = results
               /\ trends' = ComputeTrends(prior_history, results, today)
               /\ history_dir' = SaveSnapshot(history_dir, results, ScoringMethod, today)
               /\ seen' = seen \cup KeysOf(results)
               /\ UNCHANGED <<today, saved>>

\* a UTC midnight passes
Tick ==
    /\ today < MaxDate
    /\ today' = today + 1
    /\ pc' = "tick"
    /\ UNCHANGED <<history, current_results, trends, history_dir,
                   max_days, loaded, seen, saved>>
    /\ UNCHANGED scoring_vars
    /\ UNCHANGED service_vars

\* save_snapshot(results, history_dir, scoring_method, snapshot_date)
CallSaveSnapshot(results, snapshot_date) ==
    /\ history_dir' = SaveSnapshot(history_dir, results, ScoringMethod, snapshot_date)
    /\ saved' = [d \in DOMAIN saved \cup {snapshot_date} |->
                    IF d = snapshot_date
                    THEN [results |-> results, replaced |-> d \in DOMAIN saved]
                    ELSE saved[d]]
    /\ current_results' = results
    /\ pc' = "save_snapshot"
    /\ UNCHANGED <<history, today, trends, max_days, loaded, seen>>
    /\ UNCHANGED scoring_vars
    /\ UNCHANGED service_vars

\* load_history(history_dir, max_days=n)
CallLoadHistory(n) ==
    /\ loaded' = LoadHistory(history_dir, n)
    /\ max_days' = n
    /\ pc' = "load_history"
    /\ trends' = None
    /\ UNCHANGED <<history, current_results, today, history_dir, seen, saved>>
    /\ UNCHANGED scoring_vars
    /\ UNCHANGED service_vars

RunInputs == RunResults \cup {<<>>}
SaveInputs == StoredResults \cup {<<>>}

\* daily (or repeated) runs of the command on a fresh directory
InitRuns ==
    /\ history = <<>>
    /\ current_results = <<>>
    /\ today = 1
    /\ trends = None
    /\ pc = "start"
    /\ NoDisk
    /\ NoService

NextRuns ==
    \/ \E results \in RunInputs : Run(results)
    \/ Tick

SpecRuns == InitRuns /\ [][NextRuns]_vars

\* save_snapshot calls into one directory
NextSave ==
    \E results \in SaveInputs : \E snapshot_date \in 1..MaxDate :
        CallSaveSnapshot(results, snapshot_date)

SpecSave == InitRuns /\ [][NextSave]_vars

\* a directory with arbitrary files, read by load_history and by run
InitHistory ==
    /\ history = <<>>
    /\ current_results = <<>>
    /\ today = MaxDate
    /\ trends = None
    /\ pc = "start"
    /\ history_dir \in DirectoryDomain
    /\ max_days = 0
    /\ loaded = NotLoaded
    /\ seen = {}
    /\ saved = NoFiles
    /\ NoService
    /\ NoScoring

NextHistory ==
    \/ \E n \in 0..MaxDays : CallLoadHistory(n)
    \/ \E results \in StoredResults : Run(results)

SpecHistory == InitHistory /\ [][NextHistory]_vars

\* ------------------------------------------------------------------------
\* find_exposed_airports called on arbitrary arguments
\* ------------------------------------------------------------------------
MaxAirports == 2
MaxQuakes == 2
MaxSwarm == 6

AirportOf(name, iata, lat) ==
    [name |-> name, iata_code |-> iata, latitude |-> lat, longitude |-> 0]

EarthquakeOf(id, magnitude, lat) ==
    [id |-> id, magnitude |-> magnitude, latitude |-> lat, longitude |-> 0,
     depth_km |-> 10]

AirportPool ==
    {AirportOf("Narita", "NRT", 0), AirportOf("Haneda", "HND", 1),
     AirportOf("Chofu", "N/A", 2)}

EarthquakePool ==
    {EarthquakeOf("us1", 60, 0), EarthquakeOf("us2", 50, 1), EarthquakeOf("us3", 60, 3)}

\* lists without repetition of at most n elements of a pool
ListsOf(pool, n) ==
    UNION {{l \in [1..k -> pool] : \A i \in 1..k : \A j \in 1..k : i # j => l[i] # l[j]} :
           k \in 0..n}

\* an aftershock swarm: quakes of magnitude 4.8 at 33 km depth under one
\* point, and the airports of one metropolitan area one degree south of it
SwarmIds == <<"sw1", "sw2", "sw3", "sw4", "sw5", "sw6", "sw7", "sw8">>
SwarmAirportNames ==
    <<"Ibaraki", "Yokota", "Atsugi", "Iruma", "Shimofusa", "Kisarazu", "Tateyama", "Utsunomiya">>

SwarmQuakes(m) ==
    [i \in 1..m |->
        [id |-> SwarmIds[i], magnitude |-> 48, latitude |-> 1, longitude |-> 0,
         depth_km |-> 33]]

SwarmAirports(n) == [i \in 1..n |-> AirportOf(SwarmAirportNames[i], "N/A", 0)]

\* the argument pairs (airports, earthquakes): short lists of the pools in
\* every order, and the swarm
ExposureInputs ==
    {<<a, q>> : a \in ListsOf(AirportPool, MaxAirports),
                q \in ListsOf(EarthquakePool, MaxQuakes)}
    \cup {<<SwarmAirports(n), SwarmQuakes(m)>> : n \in 0..MaxSwarm, m \in 0..MaxSwarm}

\* a grid for earthquake us1 over latitudes 0..1 on the meridian
GridUs1 ==
    [event_id |-> "us1", lon_min |-> 0, lat_min |-> 0, lon_max |-> 0, lat_max |-> 1,
     lon_spacing |-> 1, lat_spacing |-> 1, nlon |-> 1, nlat |-> 2,
     pga |-> <<<<12345000>>, <<30500000>>>>,
     mmi |-> <<<<52>>, <<68>>>>]

\* a grid for earthquake us1 over latitudes -1..0: Haneda is outside
GridUs1South ==
    [event_id |-> "us1", lon_min |-> 0, lat_min |-> -1, lon_max |-> 0, lat_max |-> 0,
     lon_spacing |-> 1, lat_spacing |-> 1, nlon |-> 1, nlat |-> 2,
     pga |-> <<<<8250000>>, <<4000000>>>>,
     mmi |-> <<<<47>>, <<39>>>>]

GridsDomain ==
    {None, Some(<<>>), Some([id \in {"us1"} |-> GridUs1]),
     Some([id \in {"us1"} |-> GridUs1South])}

\* radii in metres: nothing, exactly one degree, 200 km
RadiusDomain == {0, MetresPerDegree, 200000}

InitExposure ==
    /\ \E input \in ExposureInputs :
          /\ airports = input[1]
          /\ earthquakes = input[2]
    /\ max_distance_km \in RadiusDomain
    /\ shakemap_grids \in GridsDomain
    /\ exposed = <<>>
    /\ NoCall
    /\ pc = "start"
    /\ history = <<>>
    /\ current_results = <<>>
    /\ today = 1
    /\ trends = None
    /\ history_dir = NoDirectory
    /\ max_days = 0
    /\ loaded = NotLoaded
    /\ seen = {}
    /\ saved = NoFiles
    /\ NoService

CallFindExposedAirports ==
    /\ pc = "start"
    /\ exposed' = FindExposedAirports(airports, earthquakes, max_distance_km, shakemap_grids)
    /\ pc' = "find_exposed_airports"
    /\ UNCHANGED <<airports, earthquakes, max_distance_km, shakemap_grids>>
    /\ UNCHANGED <<args, result>>
    /\ UNCHANGED history_vars
    /\ UNCHANGED service_vars

NextExposure == CallFindExposedAirports

SpecExposure == InitExposure /\ [][NextExposure]_vars

\* ------------------------------------------------------------------------
\* calculate_risk_score called on arbitrary arguments
\* ------------------------------------------------------------------------
NoHistory ==
    /\ history = <<>>
    /\ current_results = <<>>
    /\ today = 1
    /\ trends = None
    /\ history_dir = NoDirectory
    /\ max_days = 0
    /\ loaded = NotLoaded
    /\ seen = {}
    /\ saved = NoFiles

\* "pga" is not a scoring method
Methods == {"shakemap", "exposure", "heuristic", "legacy", "pga"}

RiskArgs ==
    [method : Methods,
     earthquake_count : {None, Some(3)},
     avg_magnitude : {None, Some(500)},
     exposed_airport_count : {None, Some(0), Some(2)},
     exposed_airports : {None, Some(<<>>)} \cup {Some(l) : l \in JpnAirportLists}]

\* no or one airport, no or one earthquake
RiskInputs ==
    {<<a, q>> : a \in ListsOf(AirportPool, 1), q \in ListsOf(EarthquakePool, 1)}

InitRisk ==
    /\ \E input \in RiskInputs :
          /\ airports = input[1]
          /\ earthquakes = input[2]
    /\ max_distance_km = 200000
    /\ shakemap_grids = None
    /\ exposed = <<>>
    /\ args \in RiskArgs
    /\ result = <<>>
    /\ pc = "start"
    /\ NoHistory
    /\ NoService

CallCalculateRiskScore ==
    /\ pc = "start"
    /\ result' = CalculateRiskScore(airports, earthquakes, max_distance_km, args)
    /\ pc' = "calculate_risk_score"
    /\ UNCHANGED <<airports, earthquakes, max_distance_km, shakemap_grids, exposed, args>>
    /\ UNCHANGED history_vars
    /\ UNCHANGED service_vars

NextRisk == CallCalculateRiskScore

SpecRisk == InitRisk /\ [][NextRisk]_vars

\* ------------------------------------------------------------------------
\* compute_pager_context called on arbitrary arguments
\* ------------------------------------------------------------------------
SignificantEventOf(alert, felt, tsunami) ==
    [alert |-> alert, felt |-> felt, tsunami |-> tsunami]

\* "pending" is no alert level of ALERT_ORDER
AlertDomain ==
    {None, Some(""), Some("green"), Some("orange"), Some("red"), Some("pending")}

SignificantEvents ==
    {SignificantEventOf(alert, 0, FALSE) : alert \in AlertDomain}
    \cup {SignificantEventOf(Some("green"), 12, FALSE),
          SignificantEventOf(Some("red"), 340, TRUE),
          SignificantEventOf(None, 5, TRUE)}

\* us9 is the id of no earthquake of the pool
SignificantIds == {"us1", "us2", "us9"}

SignificantQuakesDomain ==
    UNION {[ids -> SignificantEvents] : ids \in SUBSET SignificantIds}

InitPager ==
    /\ airports = <<>>
    /\ earthquakes \in ListsOf(EarthquakePool, MaxQuakes + 1)
    /\ max_distance_km = 0
    /\ shakemap_grids = None
    /\ exposed = <<>>
    /\ \E significant_quakes \in SignificantQuakesDomain :
          args = [significant_quakes |-> significant_quakes]
    /\ result = <<>>
    /\ pc = "start"
    /\ NoHistory
    /\ NoService

CallComputePagerContext ==
    /\ pc = "start"
    /\ result' = ComputePagerContext(earthquakes, args.significant_quakes)
    /\ pc' = "compute_pager_context"
    /\ UNCHANGED <<airports, earthquakes, max_distance_km, shakemap_grids, exposed, args>>
    /\ UNCHANGED history_vars
    /\ UNCHANGED service_vars

NextPager == CallComputePagerContext

SpecPager == InitPager /\ [][NextPager]_vars

\* ------------------------------------------------------------------------
\* compute_seismic_stats called on arbitrary arguments
\* ------------------------------------------------------------------------
\* 1970-01-01 00:00, 2024-01-01 01:00 and 10000-01-01 00:00 UTC, in hours
TimeDomain == {0, 473353, 70389528}

WithTime(eq, time_ms) ==
    [id |-> eq.id, magnitude |-> eq.magnitude, latitude |-> eq.latitude,
     longitude |-> eq.longitude, depth_km |-> eq.depth_km, time_ms |-> time_ms]

StatsInputs ==
    UNION {{[i \in 1..Len(l) |-> WithTime(l[i], t[i])] : t \in [1..Len(l) -> TimeDomain]} :
           l \in ListsOf(EarthquakePool, MaxQuakes + 1)}

InitStats ==
    /\ airports = <<>>
    /\ earthquakes \in StatsInputs
    /\ max_distance_km = 0
    /\ shakemap_grids = None
    /\ exposed = <<>>
    /\ NoCall
    /\ pc = "start"
    /\ NoHistory
    /\ NoService

CallComputeSeismicStats ==
    /\ pc = "start"
    /\ result' = ComputeSeismicStats(earthquakes)
    /\ pc' = "compute_seismic_stats"
    /\ UNCHANGED <<airports, earthquakes, max_distance_km, shakemap_grids, exposed, args>>
    /\ UNCHANGED history_vars
    /\ UNCHANGED service_vars

NextStats == CallComputeSeismicStats

SpecStats == InitStats /\ [][NextStats]_vars

\* ------------------------------------------------------------------------
\* interpolate_pga called on arbitrary points
\* ------------------------------------------------------------------------
MaxCoord == 3

\* a grid of three rows and three columns two degrees apart, over
\* latitudes -2..2 and longitudes -2..2; row 0 is lat_max
GridWide ==
    [event_id |-> "us3", lon_min |-> -2, lat_min |-> -2, lon_max |-> 2, lat_max |-> 2,
     lon_spacing |-> 2, lat_spacing |-> 2, nlon |-> 3, nlat |-> 3,
     pga |-> <<<<8000000, 16000000, 24000000>>,
               <<4000000, 2000000, 12000000>>,
               <<400000, 800000, 1600000>>>>,
     mmi |-> <<<<40, 60, 72>>, <<20, 32, 52>>, <<12, 16, 24>>>>]

InterpolateGrids == {GridUs1, GridUs1South, GridWide}

InitInterpolate ==
    /\ airports = <<>>
    /\ earthquakes = <<>>
    /\ max_distance_km = 0
    /\ shakemap_grids = None
    /\ exposed = <<>>
    /\ \E grid \in InterpolateGrids :
          \E lat \in -MaxCoord..MaxCoord : \E lon \in -MaxCoord..MaxCoord :
              args = [grid |-> grid, lat |-> lat, lon |-> lon]
    /\ result = <<>>
    /\ pc = "start"
    /\ NoHistory
    /\ NoService

CallInterpolatePga ==
    /\ pc = "start"
    /\ result' = InterpolatePga(args.grid, args.lat, args.lon)
    /\ pc' = "interpolate_pga"
    /\ UNCHANGED <<airports, earthquakes, max_distance_km, shakemap_grids, exposed, args>>
    /\ UNCHANGED history_vars
    /\ UNCHANGED service_vars

NextInterpolate == CallInterpolatePga

SpecInterpolate == InitInterpolate /\ [][NextInterpolate]_vars

\* ------------------------------------------------------------------------
\* felt_radius_km called on arbitrary arguments
\* ------------------------------------------------------------------------
MaxDepth == 15

FeltMagnitudes == {10, 11, 12, 20, 30, 40, 45, 48, 50, 52}

\* depths in km: two negative ones, every depth up to MaxDepth, some deep ones
FeltDepths == (-2..MaxDepth) \cup {30, 45, 100, 300}

InitFelt ==
    /\ airports = <<>>
    /\ earthquakes = <<>>
    /\ max_distance_km = 0
    /\ shakemap_grids = None
    /\ exposed = <<>>
    /\ \E magnitude \in FeltMagnitudes : \E depth_km \in FeltDepths :
          args = [magnitude |-> magnitude, depth_km |-> depth_km]
    /\ result = <<>>
    /\ pc = "start"
    /\ NoHistory
    /\ NoService

CallFeltRadiusKm ==
    /\ pc = "start"
    /\ result' = FeltRadiusKm(args.magnitude, args.depth_km)
    /\ pc' = "felt_radius_km"
    /\ UNCHANGED <<airports, earthquakes, max_distance_km, shakemap_grids, exposed, args>>
    /\ UNCHANGED history_vars
    /\ UNCHANGED service_vars

NextFelt == CallFeltRadiusKm

SpecFelt == InitFelt /\ [][NextFelt]_vars

\* ------------------------------------------------------------------------
\* fetch_shakemap_grids called on arbitrary events and network answers
\* ------------------------------------------------------------------------
MaxEvents == 2

Us1Attributes ==
    [name \in GridAttributes |->
        CASE name = "lon_min" -> Some(0)
          [] name = "lon_max" -> Some(0)
          [] name = "lat_min" -> Some(0)
          [] name = "lat_max" -> Some(1)
          [] name = "nominal_lon_spacing" -> Some(1)
          [] name = "nominal_lat_spacing" -> Some(1)
          [] name = "nlon" -> Some(1)
          [] name = "nlat" -> Some(2)]

\* a line of grid_data: LON LAT MMI PGA
LineOf(lon, lat, mmi, pga) == <<Some(lon), Some(lat), Some(mmi), Some(pga)>>

Us1Lines == <<LineOf(0, 1, 52, 12345000), LineOf(0, 0, 68, 30500000)>>

\* the grid.xml of the grid GridUs1
ValidXml ==
    [encoding |-> "UTF-8", well_formed |-> TRUE,
     grid_specification |-> Some(Us1Attributes), grid_data |-> Some(Us1Lines)]

WithAttribute(attrib, changed, value) ==
    [name \in DOMAIN attrib |-> IF name = changed THEN value ELSE attrib[name]]

\* documents that give no grid: text that is not well-formed, a missing
\* grid_specification, a missing grid_data, a missing attribute, an
\* attribute and a field that are no numbers, three lines and one line for
\* a grid of two points, a line of three fields, negative dimensions, and a
\* declaration that names an encoding Python has no decoder for
UnusableXml ==
    {[ValidXml EXCEPT !.well_formed = FALSE],
     [ValidXml EXCEPT !.grid_specification = None],
     [ValidXml EXCEPT !.grid_data = None],
     [ValidXml EXCEPT !.grid_specification =
         Some([name \in GridAttributes \ {"nlat"} |-> Us1Attributes[name]])],
     [ValidXml EXCEPT !.grid_specification =
         Some(WithAttribute(Us1Attributes, "lat_max", None))],
     [ValidXml EXCEPT !.grid_data = Some(<<<<Some(0), Some(1), Some(52), None>>, LineOf(0, 0, 68, 30500000)>>)],
     [ValidXml EXCEPT !.grid_data = Some(Us1Lines \o <<LineOf(0, -1, 40, 100000)>>)],
     [ValidXml EXCEPT !.grid_data = Some(<<LineOf(0, 1, 52, 12345000), <<Some(0), Some(0), Some(68)>>>>)],
     [ValidXml EXCEPT !.grid_specification =
         Some(WithAttribute(WithAttribute(Us1Attributes, "nlon", Some(-1)), "nlat", Some(-2)))],
     [ValidXml EXCEPT !.encoding = "foo"]}

AnswerOf(detail, grid_url, download, content) ==
    [detail |-> detail, grid_url |-> grid_url, download |-> download, content |-> content]

\* how the requests for one event end: the detail request raises or has a
\* status other than 200, the detail has no grid.xml URL, the download
\* raises or has a status other than 200, or the download delivers a
\* document
Answers ==
    {AnswerOf("exception", None, "exception", ValidXml),
     AnswerOf("status", None, "exception", ValidXml),
     AnswerOf("ok", None, "exception", ValidXml),
     AnswerOf("ok", Some("grid.xml"), "exception", ValidXml),
     AnswerOf("ok", Some("grid.xml"), "status", ValidXml)}
    \cup {AnswerOf("ok", Some("grid.xml"), "ok", xml) : xml \in UnusableXml \cup {ValidXml}}

\* the types string of an event, split at the commas
TypesDomain == {<<"origin", "shakemap">>, <<"origin">>}

FetchEvents == {EventIds[k] : k \in 1..MaxEvents}

InitFetch ==
    /\ airports = <<>>
    /\ earthquakes = <<>>
    /\ max_distance_km = 0
    /\ shakemap_grids = None
    /\ exposed = <<>>
    /\ \E earthquake_ids \in SUBSET FetchEvents :
          \E event_types \in [earthquake_ids -> TypesDomain] :
              \E network \in [earthquake_ids -> Answers] :
                  args = [earthquake_ids |-> earthquake_ids, event_types |-> event_types,
                          network |-> network]
    /\ result = <<>>
    /\ pc = "start"
    /\ NoHistory
    /\ NoService

CallFetchShakemapGrids ==
    /\ pc = "start"
    /\ result' = FetchShakemapGrids(args.earthquake_ids, args.event_types, args.network)
    /\ pc' = "fetch_shakemap_grids"
    /\ UNCHANGED <<airports, earthquakes, max_distance_km, shakemap_grids, exposed, args>>
    /\ UNCHANGED history_vars
    /\ UNCHANGED service_vars

NextFetch == CallFetchShakemapGrids

SpecFetch == InitFetch /\ [][NextFetch]_vars

\* ------------------------------------------------------------------------
\* run_pipeline called on arbitrary configurations and answers of the
\* services
\* ------------------------------------------------------------------------
\* three earthquakes of 2024-01-01 and one whose time is outside the years
\* datetime holds
PipelineQuakes ==
    {WithTime(eq, 473353) : eq \in EarthquakePool}
    \cup {WithTime(EarthquakeOf("us4", 50, 2), 70389528)}

RowOf(name, iata_code, lat, type, iso_country) ==
    [name |-> name, iata_code |-> iata_code, latitude_deg |-> lat, longitude_deg |-> 0,
     type |-> type, iso_country |-> iso_country]

\* rows of the airports CSV: two large airports and a small one without
\* IATA code in JP, one large airport in PH and one in KR
CsvRows ==
    <<RowOf("Narita", Some("NRT"), 0, "large_airport", "JP"),
      RowOf("Haneda", Some("HND"), 1, "large_airport", "JP"),
      RowOf("Chofu", None, 2, "small_airport", "JP"),
      RowOf("Manila", Some("MNL"), 3, "large_airport", "PH"),
      RowOf("Incheon", Some("ICN"), 5, "large_airport", "KR")>>

\* the whole CSV, no row, the KR airport alone, and a CSV whose PH airport
\* is more than 200 km from every epicentre
CsvDomain ==
    {CsvRows, <<>>, <<CsvRows[5]>>,
     <<RowOf("Laoag", Some("LAO"), 6, "large_airport", "PH"), CsvRows[1]>>}

MetadataOf(common, cca3) == Some([common |-> common, cca3 |-> cca3])

RestDataDomain ==
    {[cc \in Range(Alpha2Codes) |->
         CASE cc = "JP" -> jp
           [] cc = "PH" -> ph
           [] cc = "KR" -> MetadataOf("South Korea", "KOR")] :
     jp \in {None, MetadataOf("Japan", "JPN")},
     ph \in {None, MetadataOf("Philippines", "PHL")}}

ConfigDomain ==
    [min_quakes_per_country : 1..3,
     scoring_method : {"exposure", "legacy", "shakemap"},
     max_airport_distance_km : {200000},
     airport_type : {"large_airport"}]

WorldDomain ==
    [earthquakes : ListsOf(PipelineQuakes, MaxQuakes + 1),
     event_types : {[id \in {"us1", "us2", "us3", "us4"} |-> <<"origin", "shakemap">>]},
     significant_quakes :
         {<<>>, [id \in {"us1"} |-> SignificantEventOf(Some("red"), 340, TRUE)]},
     network : {[id \in {"us1"} |-> AnswerOf("ok", Some("grid.xml"), "ok", ValidXml)]},
     csv : CsvDomain,
     rest_data : RestDataDomain]

InitPipeline ==
    /\ airports = <<>>
    /\ earthquakes = <<>>
    /\ max_distance_km = 0
    /\ shakemap_grids = None
    /\ exposed = <<>>
    /\ \E config \in ConfigDomain : \E world \in WorldDomain :
          args = [config |-> config, world |-> world]
    /\ result = <<>>
    /\ pc = "start"
    /\ NoHistory
    /\ NoService

CallRunPipeline ==
    /\ pc = "start"
    /\ result' = RunPipeline(args.config, args.world)
    /\ pc' = "run_pipeline"
    /\ UNCHANGED <<airports, earthquakes, max_distance_km, shakemap_grids, exposed, args>>
    /\ UNCHANGED history_vars
    /\ UNCHANGED service_vars

NextPipeline == CallRunPipeline

SpecPipeline == InitPipeline /\ [][NextPipeline]_vars

\* ------------------------------------------------------------------------
\* cache_put and cache_get called in any order on a cache directory whose
\* files can also be damaged from outside
\* ------------------------------------------------------------------------
MaxClock == 2

CacheKeys == {<<"airports", "csv">>, <<"country_JP", "json">>, <<"airports", "csv", "meta">>}

CacheData == {BytesOf("alpha"), BytesOf("bravo")}

\* damaged metadata: bytes that are no UTF-8 text, text that is no JSON, a
\* JSON list, an object without timestamp, an object whose timestamp is a
\* text
DamagedMeta ==
    {[kind |-> "not_utf8", text |-> "", timestamp |-> None],
     BytesOf("{timestamp"),
     [kind |-> "array", text |-> "", timestamp |-> None],
     [kind |-> "object", text |-> "", timestamp |-> None],
     [kind |-> "object", text |-> "", timestamp |-> Some(None)]}

MaxAges == {0, 1}

InitCache ==
    /\ airports = <<>>
    /\ earthquakes = <<>>
    /\ max_distance_km = 0
    /\ shakemap_grids = None
    /\ exposed = <<>>
    /\ NoCall
    /\ pc = "start"
    /\ NoHistory
    /\ NoService

CacheUntouched ==
    /\ UNCHANGED <<airports, earthquakes, max_distance_km, shakemap_grids, exposed>>
    /\ UNCHANGED history_vars
    /\ UNCHANGED <<run_count, last_run, requests>>

\* a second passes
TickClock ==
    /\ clock < MaxClock
    /\ clock' = clock + 1
    /\ pc' = "tick"
    /\ UNCHANGED <<cache_dir, stored, args, result>>
    /\ CacheUntouched

\* cache_put writes at the time of the clock and takes a second
CallCachePut(key, data) ==
    /\ clock < MaxClock
    /\ clock' = clock + 1
    /\ cache_dir' = CachePut(cache_dir, key, data, clock)
    /\ stored' = [k \in DOMAIN stored \cup {key} |->
                     IF k = key THEN [data |-> data, time |-> clock, intact |-> TRUE]
                     ELSE stored[k]]
    /\ args' = [key |-> key, data |-> data]
    /\ result' = <<>>
    /\ pc' = "cache_put"
    /\ CacheUntouched

\* something else than cache_put writes the metadata file of a key
DamageMeta(key, content) ==
    /\ key \in DOMAIN stored
    /\ stored[key].intact
    /\ cache_dir' = WriteFile(cache_dir, MetaPath(key), content)
    /\ stored' = [stored EXCEPT ![key].intact = FALSE]
    /\ pc' = "damage"
    /\ UNCHANGED <<clock, args, result>>
    /\ CacheUntouched

CallCacheGet(key, max_age_seconds) ==
    /\ result' = CacheGet(cache_dir, key, max_age_seconds, clock)
    /\ args' = [key |-> key, max_age_seconds |-> max_age_seconds]
    /\ pc' = "cache_get"
    /\ UNCHANGED <<cache_dir, clock, stored>>
    /\ CacheUntouched

NextCache ==
    \/ TickClock
    \/ \E key \in CacheKeys : \E data \in CacheData : CallCachePut(key, data)
    \/ \E key \in CacheKeys : \E content \in DamagedMeta : DamageMeta(key, content)
    \/ \E key \in CacheKeys : \E max_age_seconds \in MaxAges : CallCacheGet(key, max_age_seconds)

SpecCache == InitCache /\ [][NextCache]_vars

\* ------------------------------------------------------------------------
\* cli.py run, repeated on the day after a long series of daily runs: the
\* directory holds a snapshot for each of the last n days
\* ------------------------------------------------------------------------
DailyDirectory(n, first, rest) ==
    [exists |-> TRUE,
     files |-> [d \in 1..n |->
                   JsonOf(DailySnapshotOf(IF d = 1 THEN first ELSE rest, d, ScoringMethod))]]

DailyDirectories ==
    {DailyDirectory(n, first, rest) :
        n \in (DefaultMaxDays - 2)..DefaultMaxDays,
        first \in StoredResults, rest \in StoredResults}

InitDaily ==
    /\ history = <<>>
    /\ current_results = <<>>
    /\ today = DefaultMaxDays + 1
    /\ trends = None
    /\ pc = "start"
    /\ history_dir \in DailyDirectories
    /\ max_days = 0
    /\ loaded = NotLoaded
    /\ seen = {}
    /\ saved = NoFiles
    /\ NoService
    /\ NoScoring

NextDaily == \E results \in RunInputs : Run(results)

SpecDaily == InitDaily /\ [][NextDaily]_vars

\* ------------------------------------------------------------------------
\* grid.xml documents that _parse_grid_xml accepts or rejects, and points
\* at which the grid is then interpolated
\* ------------------------------------------------------------------------
MaxSpacing == 2

\* nlon, nlat and the lines of grid_data that go with them
GridShapes ==
    {[nlon |-> 1, nlat |-> 2, lines |-> Us1Lines],
     [nlon |-> 2, nlat |-> 2,
      lines |-> <<LineOf(0, 1, 52, 12000000), LineOf(1, 1, 56, 16000000),
                  LineOf(0, 0, 68, 32000000), LineOf(1, 0, 60, 20000000)>>],
     [nlon |-> 2, nlat |-> 1, lines |-> Us1Lines],
     [nlon |-> 0, nlat |-> 0, lines |-> <<>>],
     [nlon |-> 0, nlat |-> 2, lines |-> <<>>],
     [nlon |-> 2, nlat |-> 2, lines |-> Us1Lines]}

GridXml(shape, lon_max, lon_spacing, lat_spacing) ==
    [ValidXml EXCEPT
        !.grid_specification = Some(
            [name \in GridAttributes |->
                CASE name = "lon_max" -> Some(lon_max)
                  [] name = "nominal_lon_spacing" -> Some(lon_spacing)
                  [] name = "nominal_lat_spacing" -> Some(lat_spacing)
                  [] name = "nlon" -> Some(shape.nlon)
                  [] name = "nlat" -> Some(shape.nlat)
                  [] OTHER -> Us1Attributes[name]]),
        !.grid_data = Some(shape.lines)]

GridDocuments ==
    {GridXml(shape, lon_max, lon_spacing, lat_spacing) :
        shape \in GridShapes, lon_max \in 0..1,
        lon_spacing \in 0..MaxSpacing, lat_spacing \in 0..MaxSpacing}

InitParsed ==
    /\ airports = <<>>
    /\ earthquakes = <<>>
    /\ max_distance_km = 0
    /\ shakemap_grids = None
    /\ exposed = <<>>
    /\ \E xml \in GridDocuments : \E lat \in -1..2 : \E lon \in -1..2 :
          args = [xml |-> xml, lat |-> lat, lon |-> lon]
    /\ result = <<>>
    /\ pc = "start"
    /\ NoHistory
    /\ NoService

CallInterpolateParsed ==
    /\ pc = "start"
    /\ result' = InterpolateParsed(args.xml, "us1", args.lat, args.lon)
    /\ pc' = "interpolate_parsed"
    /\ UNCHANGED <<airports, earthquakes, max_distance_km, shakemap_grids, exposed, args>>
    /\ UNCHANGED history_vars
    /\ UNCHANGED service_vars

NextParsed == CallInterpolateParsed

SpecParsed == InitParsed /\ [][NextParsed]_vars

\* ------------------------------------------------------------------------
\* api.py: GET /risk.  get_risk is a plain def, so every request runs in a
\* thread of the server's pool; a thread can be preempted between any two
\* of the steps below.  requests maps a request to [pc, loaded, status]:
\* where its thread stands, the run_count it read, and its response status
\* (0 while there is none).
\* ------------------------------------------------------------------------
MaxRequests == 3

RequestIds == 1..MaxRequests

InitServer ==
    /\ airports = <<>>
    /\ earthquakes = <<>>
    /\ max_distance_km = 0
    /\ shakemap_grids = None
    /\ exposed = <<>>
    /\ NoCall
    /\ pc = "start"
    /\ NoHistory
    /\ NoService

ServerUntouched ==
    /\ UNCHANGED <<airports, earthquakes, max_distance_km, shakemap_grids, exposed>>
    /\ UNCHANGED <<args, result>>
    /\ UNCHANGED history_vars
    /\ UNCHANGED <<cache_dir, clock, stored>>

At(r, where) == r \in DOMAIN requests /\ requests[r].pc = where

Moved(r, where) == [requests EXCEPT ![r].pc = where]

\* a request arrives and its thread calls run_pipeline(config)
Arrive(r) ==
    /\ r \notin DOMAIN requests
    /\ requests' = [q \in DOMAIN requests \cup {r} |->
                       IF q = r THEN [pc |-> "run_pipeline", loaded |-> 0, status |-> 0]
                       ELSE requests[q]]
    /\ pc' = "arrive"
    /\ UNCHANGED <<run_count, last_run>>
    /\ ServerUntouched

\* run_pipeline raises: the response is 502
PipelineRaises(r) ==
    /\ At(r, "run_pipeline")
    /\ requests' = [requests EXCEPT ![r].pc = "done", ![r].status = 502]
    /\ pc' = "pipeline_raises"
    /\ UNCHANGED <<run_count, last_run>>
    /\ ServerUntouched

\* run_pipeline returns
PipelineReturns(r) ==
    /\ At(r, "run_pipeline")
    /\ requests' = Moved(r, "set_last_run")
    /\ pc' = "pipeline_returns"
    /\ UNCHANGED <<run_count, last_run>>
    /\ ServerUntouched

\* app.state.last_run = datetime.now(tz=timezone.utc)
SetLastRun(r) ==
    /\ At(r, "set_last_run")
    /\ last_run' = Some(r)
    /\ requests' = Moved(r, "load_run_count")
    /\ pc' = "set_last_run"
    /\ UNCHANGED run_count
    /\ ServerUntouched

\* app.state.run_count += 1, first half: the attribute is read
LoadRunCount(r) ==
    /\ At(r, "load_run_count")
    /\ requests' = [requests EXCEPT ![r].pc = "store_run_count", ![r].loaded = run_count]
    /\ pc' = "load_run_count"
    /\ UNCHANGED <<run_count, last_run>>
    /\ ServerUntouched

\* app.state.run_count += 1, second half: the sum is stored; then the
\* results are exported and returned
StoreRunCount(r) ==
    /\ At(r, "store_run_count")
    /\ run_count' = requests[r].loaded + 1
    /\ requests' = [requests EXCEPT ![r].pc = "done", ![r].status = 200]
    /\ pc' = "store_run_count"
    /\ UNCHANGED last_run
    /\ ServerUntouched

NextServer ==
    \E r \in RequestIds :
        \/ Arrive(r)
        \/ PipelineRaises(r)
        \/ PipelineReturns(r)
        \/ SetLastRun(r)
        \/ LoadRunCount(r)
        \/ StoreRunCount(r)

SpecServer == InitServer /\ [][NextServer]_vars

\* ------------------------------------------------------------------------
\* Properties of compute_trends
\* ------------------------------------------------------------------------
Computed == pc = "compute_trends" /\ history # <<>>
MostRecent == history[Len(history)]

\* positions <<c>> of the country entries of snapshot i with code iso3
CountryHits(i, iso3) ==
    {c \in 1..Len(history[i].countries) : history[i].countries[c].iso_alpha3 = iso3}

\* positions <<c, a>> of the airport entries of snapshot i with code iata
AirportHits(i, iata) ==
    UNION {{<<c, a>> : a \in {b \in 1..Len(history[i].countries[c].airports) :
                                  history[i].countries[c].airports[b].iata_code = iata}} :
           c \in 1..Len(history[i].countries)}

Later(x, y) == x[1] > y[1] \/ (x[1] = y[1] /\ x[2] > y[2])

CurrentIso3s == {r.iso_alpha3 : r \in Range(current_results)}
CurrentIatas ==
    {ap.iata_code : ap \in UNION {Range(r.exposed_airports) : r \in Range(current_results)}}
MostRecentIso3s == {cs.iso_alpha3 : cs \in Range(MostRecent.countries)}
MostRecentIatas ==
    {ap.iata_code : ap \in UNION {Range(cs.airports) : cs \in Range(MostRecent.countries)}}

\* C1: after compute_trends on a non-empty history, the previous_score of
\* every country and airport code of current_results is the score that code
\* has in the last snapshot of history, and None when the last snapshot has
\* no entry for it, whatever the dates and the older snapshots are.
C1_PreviousIsMostRecent ==
    Computed =>
        /\ trends # None
        /\ \A iso3 \in CurrentIso3s :
            LET t == trends[1].country_trends[iso3]
                hits == CountryHits(Len(history), iso3)
            IN IF hits = {} THEN t.previous_score = None
               ELSE \E c \in hits :
                       /\ \A d \in hits : d <= c
                       /\ t.previous_score = Some(MostRecent.countries[c].score)
        /\ \A iata \in CurrentIatas :
            LET t == trends[1].airport_trends[iata]
                hits == AirportHits(Len(history), iata)
            IN IF hits = {} THEN t.previous_score = None
               ELSE \E x \in hits :
                       /\ \A y \in hits : ~Later(y, x)
                       /\ t.previous_score =
                            Some(MostRecent.countries[x[1]].airports[x[2]].exposure_score)

\* C1 witness: two snapshots with a gap before today; Japan's score differs
\* between them, and the Philippines are in the older one only.
C1_Witness ==
    /\ Computed
    /\ Len(history) = 2
    /\ today - MostRecent.date >= 2
    /\ "JPN" \in CurrentIso3s /\ "PHL" \in CurrentIso3s
    /\ CountryHits(1, "PHL") # {} /\ CountryHits(2, "PHL") = {}
    /\ \E c \in CountryHits(1, "JPN") : \E d \in CountryHits(2, "JPN") :
          history[1].countries[c].score # history[2].countries[d].score
    /\ AirportHits(1, "NRT") # {} /\ AirportHits(2, "NRT") = {} /\ "NRT" \in CurrentIatas

\* the direction the two-decimal scores call for
DirectionOfDelta(delta) ==
    IF delta > 50 THEN "up" ELSE IF delta < -50 THEN "down" ELSE "stable"

TrendFollowsDelta(t) ==
    /\ t.is_new = (t.previous_score = None)
    /\ t.score_delta = IF t.previous_score = None THEN 0
                       ELSE t.current_score - t.previous_score[1]
    /\ t.trend_direction = IF t.previous_score = None THEN "new"
                           ELSE DirectionOfDelta(t.score_delta)

\* C2: for every country and airport of current_results, score_delta is
\* current_score - previous_score (0 without a previous entry) and the
\* direction is new exactly when the most recent snapshot lacks the entity,
\* else up for delta > 0.5, down for delta < -0.5 and stable otherwise, a
\* delta of exactly 0.5 or -0.5 being stable.
C2_DirectionFromDelta ==
    Computed =>
        /\ \A iso3 \in CurrentIso3s :
            /\ TrendFollowsDelta(trends[1].country_trends[iso3])
            /\ trends[1].country_trends[iso3].is_new = (iso3 \notin MostRecentIso3s)
        /\ \A iata \in CurrentIatas :
            /\ TrendFollowsDelta(trends[1].airport_trends[iata])
            /\ trends[1].airport_trends[iata].is_new = (iata \notin MostRecentIatas)

GoneTrend(t, prev_score) ==
    /\ t.trend_direction = "gone"
    /\ t.is_gone /\ ~t.is_new
    /\ t.current_score = 0
    /\ t.previous_score = Some(prev_score)
    /\ t.score_delta = -prev_score

\* C3: every country and airport that the most recent snapshot has and
\* current_results lacks gets a trend with direction gone, is_gone, not
\* is_new, current_score 0 and score_delta = -previous_score;
\* gone_countries holds exactly those country codes; country_trends has no
\* entry for a code that is in neither current_results nor that snapshot.
C3_GoneEntities ==
    Computed =>
        /\ \A iso3 \in MostRecentIso3s \ CurrentIso3s :
            /\ iso3 \in DOMAIN trends[1].country_trends
            /\ \E c \in CountryHits(Len(history), iso3) :
                  GoneTrend(trends[1].country_trends[iso3], MostRecent.countries[c].score)
        /\ \A iata \in MostRecentIatas \ CurrentIatas :
            /\ iata \in DOMAIN trends[1].airport_trends
            /\ \E x \in AirportHits(Len(history), iata) :
                  GoneTrend(trends[1].airport_trends[iata],
                            MostRecent.countries[x[1]].airports[x[2]].exposure_score)
        /\ Range(trends[1].gone_countries) = MostRecentIso3s \ CurrentIso3s
        /\ Len(trends[1].gone_countries) = Cardinality(MostRecentIso3s \ CurrentIso3s)
        /\ DOMAIN trends[1].country_trends \subseteq CurrentIso3s \cup MostRecentIso3s
        /\ \A iso3 \in CurrentIso3s : ~trends[1].country_trends[iso3].is_gone

\* C3 witness: a country and an airport of the most recent snapshot are
\* missing from non-empty current results.
C3_Witness ==
    /\ Computed
    /\ current_results # <<>>
    /\ "JPN" \in MostRecentIso3s \ CurrentIso3s
    /\ "NRT" \in MostRecentIatas \ CurrentIatas

\* the history entries of a code, oldest snapshot first: hits(i) are the
\* positions in snapshot i, Score(i, x) the score at position x
SeriesIsHistory(t, hits(_), Ord(_, _), Score(_, _), extra) ==
    LET all == {ix \in (1..Len(history)) \X UNION {hits(i) : i \in 1..Len(history)} :
                   ix[2] \in hits(ix[1])}
        Before(a, b) == a[1] < b[1] \/ (a[1] = b[1] /\ Ord(b[2], a[2]))
        pos(a) == 1 + Cardinality({b \in all : Before(b, a)})
    IN /\ Len(t.scores) = Cardinality(all) + extra
       /\ Len(t.dates) = Len(t.scores)
       /\ t.days_tracked = Len(t.scores)
       /\ \A a \in all :
            /\ t.scores[pos(a)] = Score(a[1], a[2])
            /\ t.dates[pos(a)] = history[a[1]].date

CountrySeries(t, iso3, extra) ==
    SeriesIsHistory(t, LAMBDA i : CountryHits(i, iso3),
                    LAMBDA x, y : x > y,
                    LAMBDA i, c : history[i].countries[c].score, extra)

AirportSeries(t, iata, extra) ==
    SeriesIsHistory(t, LAMBDA i : AirportHits(i, iata), Later,
                    LAMBDA i, x : history[i].countries[x[1]].airports[x[2]].exposure_score,
                    extra)

EndsToday(t) ==
    /\ t.scores[Len(t.scores)] = t.current_score
    /\ t.dates[Len(t.dates)] = today

\* C4: for an entity of current_results the scores and dates of its trend
\* are its entries of every history snapshot that has it, in history order,
\* followed by today's score and date; for a gone entity they are the
\* history entries alone; days_tracked = len(scores) = len(dates) always.
C4_SeriesFromHistory ==
    Computed =>
        /\ \A r \in Range(current_results) :
            LET t == trends[1].country_trends[r.iso_alpha3]
            IN /\ CountrySeries(t, r.iso_alpha3, 1)
               /\ EndsToday(t)
               /\ t.current_score = Round2(r.seismic_hub_risk_score)
        /\ \A iata \in CurrentIatas :
            LET t == trends[1].airport_trends[iata]
            IN /\ AirportSeries(t, iata, 1)
               /\ EndsToday(t)
               /\ \E r \in Range(current_results) : \E ap \in Range(r.exposed_airports) :
                     ap.iata_code = iata /\ t.current_score = Round2(ap.exposure_score)
        /\ \A iso3 \in MostRecentIso3s \ CurrentIso3s :
            CountrySeries(trends[1].country_trends[iso3], iso3, 0)
        /\ \A iata \in MostRecentIatas \ CurrentIatas :
            AirportSeries(trends[1].airport_trends[iata], iata, 0)

\* C4 witness: Japan is in both snapshots and today, the Philippines were in
\* both snapshots and are gone today.
C4_Witness ==
    /\ Computed
    /\ Len(history) = 2
    /\ "JPN" \in CurrentIso3s /\ "PHL" \notin CurrentIso3s
    /\ \A i \in 1..2 : CountryHits(i, "JPN") # {} /\ CountryHits(i, "PHL") # {}
    /\ Len(trends[1].country_trends["JPN"].scores) = 3
    /\ Len(trends[1].country_trends["PHL"].scores) = 2
    /\ trends[1].country_trends["JPN"].scores[1] # trends[1].country_trends["JPN"].scores[2]

\* ------------------------------------------------------------------------
\* Properties of repeated runs
\* ------------------------------------------------------------------------
CountryCodes(countries) == {c.iso_alpha3 : c \in Range(countries)}
AirportCodes(countries, Aps(_)) ==
    {ap.iata_code : ap \in UNION {Range(Aps(c)) : c \in Range(countries)}}

\* dates of the files stored before the step, and the stored snapshot of a date
StoredDates == DOMAIN history_dir.files
StoredSnapshot(d) == history_dir.files[d].data
LatestOf(dates) == CHOOSE d \in dates : \A e \in dates : e <= d

\* classification of the codes cur of this run against the codes prev of a
\* stored snapshot, read off the trend map tmap of the run
Classified(tmap, cur, prev) ==
    /\ DOMAIN tmap = cur \cup prev
    /\ \A k \in cur \ prev : tmap[k].trend_direction = "new"
    /\ \A k \in cur \cap prev : tmap[k].trend_direction \in {"stable", "up", "down"}
    /\ \A k \in prev \ cur : tmap[k].trend_direction = "gone"

ClassifiedAgainst(snapshot) ==
    /\ trends' # None
    /\ Classified(trends'[1].country_trends,
                  CountryCodes(current_results'), CountryCodes(snapshot.countries))
    /\ Classified(trends'[1].airport_trends,
                  AirportCodes(current_results', LAMBDA r : r.exposed_airports),
                  AirportCodes(snapshot.countries, LAMBDA cs : cs.airports))

\* a step of the command that found results
RunStep == pc' = "run" /\ vars' # vars

\* C5 (as stated): in every run an entity is new when no earlier run held
\* it, and otherwise classified against the snapshot of the run before:
\* stable/up/down when that snapshot has it, gone when only that snapshot has
\* it, new again when it is back.
C5_LifecycleAsStated ==
    [][RunStep =>
        /\ trends' # None
        /\ \A k \in CountryCodes(current_results') \ seen :
              trends'[1].country_trends[k].trend_direction = "new"
        /\ StoredDates # {} => ClassifiedAgainst(StoredSnapshot(LatestOf(StoredDates)))
      ]_vars

\* C5 (amended): a run with results classifies against the most recent
\* stored snapshot of an earlier date: new when only the run has the entity
\* (also when older snapshots have it), stable/up/down when both have it,
\* gone when only that snapshot has it; without a snapshot of an earlier
\* date the run produces no trends, and a run without results produces no
\* trends and stores nothing.
C5_LifecycleFromEarlierSnapshot ==
    [][/\ RunStep =>
            LET earlier == {d \in StoredDates : d < today}
            IN IF earlier = {} THEN trends' = None
               ELSE ClassifiedAgainst(StoredSnapshot(LatestOf(earlier)))
       /\ pc' = "run_no_results" => trends' = None /\ history_dir' = history_dir
      ]_vars

\* C5 witness: the Philippines were in an older snapshot, not in the most
\* recent one, and are new again in this run.
C5_Witness ==
    /\ pc = "run"
    /\ trends # None
    /\ "PHL" \in DOMAIN trends[1].country_trends
    /\ trends[1].country_trends["PHL"].trend_direction = "new"
    /\ Len(trends[1].country_trends["PHL"].scores) = 2
    /\ "PHL" \in seen
    /\ "JPN" \in DOMAIN trends[1].country_trends
    /\ trends[1].country_trends["JPN"].trend_direction \in {"stable", "up", "down"}

\* ------------------------------------------------------------------------
\* Properties of save_snapshot
\* ------------------------------------------------------------------------
\* C6: after any sequence of save_snapshot calls the directory holds exactly
\* one file per date that was saved, named after the date, and its content
\* is the snapshot of the results of the last call for that date; files of
\* other dates are as their own last call left them.
C6_OneFilePerDate ==
    /\ history_dir.exists = (saved # NoFiles)
    /\ DOMAIN history_dir.files = DOMAIN saved
    /\ \A d \in DOMAIN saved :
        LET f == history_dir.files[d]
            r == saved[d].results
        IN /\ f.kind = "object"
           /\ f.data.date = d
           /\ Len(f.data.countries) = Len(r)
           /\ \A i \in 1..Len(r) :
                /\ f.data.countries[i].iso_alpha3 = r[i].iso_alpha3
                /\ f.data.countries[i].score = Round2(r[i].seismic_hub_risk_score)
                /\ Len(f.data.countries[i].airports) = Len(r[i].exposed_airports)
                /\ \A j \in 1..Len(r[i].exposed_airports) :
                     /\ f.data.countries[i].airports[j].iata_code
                            = r[i].exposed_airports[j].iata_code
                     /\ f.data.countries[i].airports[j].exposure_score
                            = Round2(r[i].exposed_airports[j].exposure_score)

\* C6 witness: one date was saved again with other results while another
\* date has its own file.
C6_Witness ==
    /\ pc = "save_snapshot"
    /\ \E d \in DOMAIN saved : \E e \in DOMAIN saved :
        /\ d # e
        /\ saved[d].replaced
        /\ ~saved[e].replaced
        /\ saved[d].results # saved[e].results

\* ------------------------------------------------------------------------
\* Properties of load_history
\* ------------------------------------------------------------------------
Loaded == pc = "load_history"
Parseable(d) == history_dir.files[d].kind = "object"
LoadedDates == [i \in 1..Len(loaded.snapshots) |-> loaded.snapshots[i].date]

\* C7: load_history never fails because of what a file contains: files that
\* do not parse into a DailySnapshot are skipped and every other file is
\* still loaded (here with max_days no smaller than the number of files).
C7_LoadNeverFails ==
    /\ pc \in {"load_history", "run_raised"} => loaded.raised = None
    /\ (Loaded /\ max_days >= Cardinality(StoredDates)) =>
            Range(LoadedDates) = {d \in StoredDates : Parseable(d)}

\* C8: for every max_days >= 0 load_history returns the snapshots in
\* ascending date order, at most max_days of them, none older than a
\* stored snapshot it leaves out, and [] for a missing or empty directory.
C8_LoadWindow ==
    (Loaded /\ loaded.raised = None) =>
        /\ \A i \in 1..Len(LoadedDates) : \A j \in 1..Len(LoadedDates) :
              i < j => LoadedDates[i] < LoadedDates[j]
        /\ Len(loaded.snapshots) <= max_days
        /\ \A d \in StoredDates : \A e \in Range(LoadedDates) :
              (Parseable(d) /\ d \notin Range(LoadedDates)) => d < e
        /\ (~history_dir.exists \/ StoredDates = {}) => loaded.snapshots = <<>>

OldFormat(d) ==
    /\ Parseable(d)
    /\ StoredSnapshot(d).countries # <<>>
    /\ \A i \in 1..Len(StoredSnapshot(d).countries) :
          "airports" \notin DOMAIN StoredSnapshot(d).countries[i]

NoAirports(snapshot) ==
    /\ snapshot.countries # <<>>
    /\ \A i \in 1..Len(snapshot.countries) : snapshot.countries[i].airports = <<>>

\* C9: a file whose country entries lack the airports key loads, with
\* airports = [] for those countries; and when the history of a run holds
\* only such snapshots every airport of the run is new with days_tracked 1.
C9_OldFormatLoads ==
    /\ (Loaded /\ loaded.raised = None) =>
          \A d \in StoredDates :
              (OldFormat(d) /\ Cardinality({e \in StoredDates : e >= d}) <= max_days) =>
                  \E i \in 1..Len(loaded.snapshots) :
                      /\ loaded.snapshots[i].date = d
                      /\ NoAirports(loaded.snapshots[i])
                      /\ CountryCodes(loaded.snapshots[i].countries)
                            = CountryCodes(StoredSnapshot(d).countries)
    /\ (pc = "run" /\ history # <<>> /\ \A i \in 1..Len(history) : NoAirports(history[i])) =>
          /\ trends # None
          /\ \A k \in AirportCodes(current_results, LAMBDA r : r.exposed_airports) :
                /\ trends[1].airport_trends[k].trend_direction = "new"
                /\ trends[1].airport_trends[k].is_new
                /\ trends[1].airport_trends[k].days_tracked = 1

\* C9 witness: a run over a history of two old-format snapshots, with
\* airports in its results.
C9_Witness ==
    /\ pc = "run"
    /\ Len(history) = 2
    /\ \A i \in 1..Len(history) : NoAirports(history[i])
    /\ AirportCodes(current_results, LAMBDA r : r.exposed_airports) = {"NRT", "N/A"}
    /\ trends # None
    /\ \A d \in 1..2 : d \in StoredDates /\ OldFormat(d)

\* ------------------------------------------------------------------------
\* Properties of find_exposed_airports
\* ------------------------------------------------------------------------
Found == pc = "find_exposed_airports"

\* the earthquakes within the radius of an airport, by position
CloseTo(ap) ==
    {j \in 1..Len(earthquakes) : Distance(ap, earthquakes[j]) <= max_distance_km}

\* the entries of the result that belong to an airport
EntriesOf(ap) ==
    {k \in 1..Len(exposed) :
        /\ exposed[k].name = ap.name
        /\ exposed[k].iata_code = ap.iata_code
        /\ exposed[k].latitude = ap.latitude}

\* C10: a NearbyQuake exists for an (airport, earthquake) pair exactly when
\* the distance is <= max_distance_km; an airport is in the result exactly
\* when it has such a pair, and then once; every entry of the result has a
\* non-empty nearby_quakes list; without airports or earthquakes the result
\* is [].
C10_ExposedIffWithinRadius ==
    Found =>
        /\ \A i \in 1..Len(airports) :
              /\ Cardinality(EntriesOf(airports[i]))
                    = IF CloseTo(airports[i]) = {} THEN 0 ELSE 1
              /\ \A k \in EntriesOf(airports[i]) :
                    /\ Len(exposed[k].nearby_quakes) = Cardinality(CloseTo(airports[i]))
                    /\ {q.earthquake_id : q \in Range(exposed[k].nearby_quakes)}
                          = {earthquakes[j].id : j \in CloseTo(airports[i])}
        /\ \A k \in 1..Len(exposed) :
              /\ exposed[k].nearby_quakes # <<>>
              /\ \E i \in 1..Len(airports) : k \in EntriesOf(airports[i])
        /\ (airports = <<>> \/ earthquakes = <<>>) => exposed = <<>>

\* C10 witness: one airport lies exactly on the radius of an earthquake and
\* is in the result with it, another airport has no earthquake in range and
\* is left out.
C10_Witness ==
    /\ Found
    /\ max_distance_km > 0
    /\ \E i \in 1..Len(airports) : \E j \in 1..Len(earthquakes) :
          /\ Distance(airports[i], earthquakes[j]) = max_distance_km
          /\ \E k \in EntriesOf(airports[i]) :
                earthquakes[j].id \in {q.earthquake_id : q \in Range(exposed[k].nearby_quakes)}
    /\ \E i \in 1..Len(airports) :
          CloseTo(airports[i]) = {} /\ EntriesOf(airports[i]) = {}

\* the sum of the exposure_contribution values of an entry of the result
ContributionSum(entry) ==
    SumSeq([j \in 1..Len(entry.nearby_quakes) |-> entry.nearby_quakes[j].exposure_contribution])

\* 0.02 in thousandths
Tolerance == 20

\* C11: the exposure_score of every returned ExposedAirport differs from the
\* sum of the exposure_contribution values of its nearby_quakes by at most
\* 0.02, whatever the number of nearby quakes.
C11_ScoreIsSumOfContributions ==
    Found =>
        \A k \in 1..Len(exposed) :
            Abs(exposed[k].exposure_score - ContributionSum(exposed[k])) <= Tolerance

\* position of an earthquake id in the argument list
PositionOf(id) == CHOOSE j \in 1..Len(earthquakes) : earthquakes[j].id = id

\* C12: in every returned ExposedAirport nearby_quakes is sorted ascending
\* by distance_km and closest_quake_distance_km is the distance_km of its
\* first element.
C12_NearbySortedByDistance ==
    Found =>
        \A k \in 1..Len(exposed) :
            LET nearby == exposed[k].nearby_quakes
            IN /\ \A i \in 1..Len(nearby) : \A j \in 1..Len(nearby) :
                     i < j => nearby[i].distance_km <= nearby[j].distance_km
               /\ exposed[k].closest_quake_distance_km = nearby[1].distance_km

\* C12 witness: an airport has two nearby quakes and the closer one came
\* later in the earthquake list.
C12_Witness ==
    /\ Found
    /\ \E k \in 1..Len(exposed) :
          LET nearby == exposed[k].nearby_quakes
          IN /\ Len(nearby) = 2
             /\ nearby[1].distance_km < nearby[2].distance_km
             /\ PositionOf(nearby[1].earthquake_id) > PositionOf(nearby[2].earthquake_id)

\* the grid of an earthquake, if shakemap_grids has one
HasGrid(id) == shakemap_grids # None /\ id \in DOMAIN shakemap_grids[1]

InsideBox(grid, ap) ==
    /\ grid.lat_min <= ap.latitude /\ ap.latitude <= grid.lat_max
    /\ grid.lon_min <= ap.longitude /\ ap.longitude <= grid.lon_max

UsesGrid(ap, eq) == HasGrid(eq.id) /\ InsideBox(shakemap_grids[1][eq.id], ap)

\* the contribution the claim prescribes for a pair, in millionths
PrescribedContribution(ap, eq) ==
    IF UsesGrid(ap, eq)
    THEN InterpolatePga(shakemap_grids[1][eq.id], ap.latitude, ap.longitude)[1].pga
    ELSE HeuristicContribution(eq.magnitude, Distance(ap, eq), eq.depth_km)

NearbyOf(entry, id) ==
    CHOOSE q \in Range(entry.nearby_quakes) : q.earthquake_id = id

\* C13: for a pair within the radius the contribution is the interpolated
\* PGA, and pga_g and mmi are set, exactly when shakemap_grids has a grid for
\* the earthquake and the airport is inside its bounding box; otherwise the
\* contribution is the heuristic value and pga_g and mmi are None.
C13_GridOrHeuristic ==
    Found =>
        \A i \in 1..Len(airports) : \A k \in EntriesOf(airports[i]) :
            /\ \A j \in CloseTo(airports[i]) :
                  LET q == NearbyOf(exposed[k], earthquakes[j].id)
                  IN /\ q.exposure_contribution
                          = 10 * Round2Micro(PrescribedContribution(airports[i], earthquakes[j]))
                     /\ (q.pga_g # None) = UsesGrid(airports[i], earthquakes[j])
                     /\ (q.mmi # None) = UsesGrid(airports[i], earthquakes[j])
            /\ exposed[k].exposure_score
                  = 10 * Round2Micro(SumSeq([j \in 1..Len(earthquakes) |->
                        IF j \in CloseTo(airports[i])
                        THEN PrescribedContribution(airports[i], earthquakes[j])
                        ELSE 0]))

\* C13 witness: one result has a pair scored from the grid, a pair whose
\* airport lies outside the grid of its earthquake, and a pair whose
\* earthquake has no grid.
C13_Witness ==
    /\ Found
    /\ \E k \in 1..Len(exposed) : \E q \in Range(exposed[k].nearby_quakes) :
          q.pga_g # None /\ q.mmi # None
    /\ \E k \in 1..Len(exposed) : \E q \in Range(exposed[k].nearby_quakes) :
          HasGrid(q.earthquake_id) /\ q.pga_g = None
    /\ \E k \in 1..Len(exposed) : \E q \in Range(exposed[k].nearby_quakes) :
          ~HasGrid(q.earthquake_id) /\ shakemap_grids # None /\ q.pga_g = None

\* ------------------------------------------------------------------------
\* Properties of calculate_risk_score
\* ------------------------------------------------------------------------
Scored == pc = "calculate_risk_score"

LegacyArgMissing ==
    \/ args.earthquake_count = None
    \/ args.avg_magnitude = None
    \/ args.exposed_airport_count = None

\* C14: calculate_risk_score raises a validation error exactly when the
\* method is none of shakemap, exposure, heuristic, legacy (the error names
\* the method), or the method is legacy and a legacy argument is missing, or
\* the method is legacy and exposed_airport_count is 0; otherwise it returns
\* a number.
C14_RaisesExactly ==
    Scored =>
        LET unknown == args.method \notin {"shakemap", "exposure", "heuristic", "legacy"}
            legacy == args.method = "legacy"
        IN /\ (result.raised # None) =
                 \/ unknown
                 \/ legacy /\ LegacyArgMissing
                 \/ legacy /\ args.exposed_airport_count = Some(0)
           /\ result.raised # None =>
                 /\ result.raised[1].type = "ValueError"
                 /\ result.value = None
                 /\ unknown => result.raised[1].message[Len(result.raised[1].message)] = args.method
           /\ result.raised = None => result.value # None /\ result.value[1] \in Int

\* C14 witness: the legacy method with all three arguments given and no
\* exposed airport raises.
C14_Witness ==
    /\ Scored
    /\ args.method = "legacy"
    /\ ~LegacyArgMissing
    /\ args.exposed_airport_count = Some(0)
    /\ result.raised # None

\* the call with another method or other airports and earthquakes
WithMethod(m) == [args EXCEPT !.method = m]

\* C15: shakemap, exposure and heuristic return the same value for the same
\* arguments: the rounded sum of the exposure_score values of
\* exposed_airports when the list is given, whatever airports and
\* earthquakes are, and calculate_exposure_score(airports, earthquakes,
\* max_distance_km) when it is not.
C15_ExposureMethodsAgree ==
    (Scored /\ args.method \in {"shakemap", "exposure", "heuristic"}) =>
        /\ result.raised = None
        /\ \A m \in {"shakemap", "exposure", "heuristic"} :
              CalculateRiskScore(airports, earthquakes, max_distance_km, WithMethod(m)) = result
        /\ IF args.exposed_airports # None
           THEN /\ result.value[1] =
                      Round2(SumSeq([i \in 1..Len(args.exposed_airports[1]) |->
                                        args.exposed_airports[1][i].exposure_score]))
                /\ \A input \in RiskInputs :
                      CalculateRiskScore(input[1], input[2], max_distance_km, args) = result
           ELSE result.value[1]
                    = CalculateExposureScore(airports, earthquakes, max_distance_km)

\* C15 witness: heuristic is called with a list of exposed airports whose
\* sum differs from the score of the airports and earthquakes passed along.
C15_Witness ==
    /\ Scored
    /\ args.method = "heuristic"
    /\ args.exposed_airports # None
    /\ Len(args.exposed_airports[1]) = 2
    /\ result.value # None
    /\ CalculateExposureScore(airports, earthquakes, max_distance_km) > 0
    /\ CalculateExposureScore(airports, earthquakes, max_distance_km) # result.value[1]

\* ------------------------------------------------------------------------
\* Properties that relate find_exposed_airports to the other scoring code
\* ------------------------------------------------------------------------
\* C16: without ShakeMap grids, sum_airport_scores of the result of
\* find_exposed_airports and calculate_exposure_score of the same airports,
\* earthquakes and radius differ by at most 0.02, whatever the number of
\* exposed airports.
C16_TwoWaysAgree ==
    (Found /\ shakemap_grids = None) =>
        10 * Abs(SumAirportScores(exposed)
                 - CalculateExposureScore(airports, earthquakes, max_distance_km))
            <= Tolerance

\* the orderings of a list
Orderings(l) ==
    {[i \in 1..Len(l) |-> l[p[i]]] :
        p \in {f \in [1..Len(l) -> 1..Len(l)] :
                  \A i \in 1..Len(l) : \A j \in 1..Len(l) : i # j => f[i] # f[j]}}

\* C17: for every ordering of the earthquake list find_exposed_airports
\* returns the same result: every airport has the same nearby_quakes
\* sequence and the same exposure_score.
C17_OrderIndependent ==
    Found =>
        \A reordered \in Orderings(earthquakes) :
            FindExposedAirports(airports, reordered, max_distance_km, shakemap_grids) = exposed

\* ------------------------------------------------------------------------
\* Properties of compute_pager_context
\* ------------------------------------------------------------------------
Paged == pc = "compute_pager_context"

\* the positions of the earthquakes whose id the significant map holds
Matched == {i \in 1..Len(earthquakes) : earthquakes[i].id \in DOMAIN args.significant_quakes}

MatchedEvents == {args.significant_quakes[earthquakes[i].id] : i \in Matched}

\* green < yellow < orange < red
AlertLevels == <<"green", "yellow", "orange", "red">>

LevelOf(alert) == CHOOSE k \in 1..Len(AlertLevels) : AlertLevels[k] = alert

RecognizedAlerts ==
    {s.alert[1] : s \in {e \in MatchedEvents : e.alert # None}} \cap Range(AlertLevels)

\* C18: compute_pager_context looks only at the earthquakes whose id is in
\* the significant map: highest_alert is the highest of their alerts under
\* green < yellow < orange < red, an absent or unrecognized alert never being
\* the result, and None when there is no recognized one; max_felt is the
\* largest of their felt counts, 0 when there is none; has_tsunami_warning
\* is the disjunction of their tsunami flags; significant_count is their
\* number; and every ordering of the earthquake list gives the same result.
C18_PagerContext ==
    Paged =>
        /\ result.highest_alert =
              IF RecognizedAlerts = {} THEN None
              ELSE Some(CHOOSE a \in RecognizedAlerts :
                            \A b \in RecognizedAlerts : LevelOf(b) <= LevelOf(a))
        /\ result.max_felt \in {s.felt : s \in MatchedEvents} \cup {0}
        /\ \A s \in MatchedEvents : s.felt <= result.max_felt
        /\ result.has_tsunami_warning = (\E s \in MatchedEvents : s.tsunami)
        /\ result.significant_count = Cardinality(Matched)
        /\ \A reordered \in Orderings(earthquakes) :
              ComputePagerContext(reordered, args.significant_quakes) = result

\* C18 witness: three earthquakes, two of them in the significant map, the
\* first with an unrecognized alert and the second with a green one, and an
\* entry of the map for an earthquake that is not in the list.
C18_Witness ==
    /\ Paged
    /\ Len(earthquakes) = 3
    /\ Cardinality(Matched) = 2
    /\ "us9" \in DOMAIN args.significant_quakes
    /\ args.significant_quakes["us9"].alert = Some("red")
    /\ \E i \in Matched : \E j \in Matched :
          /\ i < j
          /\ args.significant_quakes[earthquakes[i].id].alert = Some("pending")
          /\ args.significant_quakes[earthquakes[j].id].alert = Some("green")
    /\ result.highest_alert = Some("green")
    /\ result.max_felt = 12
    /\ result.significant_count = 2

\* ------------------------------------------------------------------------
\* Properties of compute_seismic_stats
\* ------------------------------------------------------------------------
Summarised == pc = "compute_seismic_stats"

\* the first earthquake of the list that no earthquake exceeds in magnitude
FirstStrongest ==
    earthquakes[CHOOSE i \in 1..Len(earthquakes) :
                    /\ \A j \in 1..Len(earthquakes) :
                          earthquakes[j].magnitude <= earthquakes[i].magnitude
                    /\ \A j \in 1..(i - 1) :
                          earthquakes[j].magnitude < earthquakes[i].magnitude]

\* the summary is the summary of the earthquake eq
SummaryOf(summary, eq) ==
    /\ summary.magnitude = eq.magnitude
    /\ summary.latitude = eq.latitude
    /\ summary.longitude = eq.longitude
    /\ summary.depth_km = eq.depth_km
    /\ summary.date = CivilFromDays(eq.time_ms \div 24)

\* when compute_seismic_stats returns, the strongest earthquake is the first
\* one of the list with the largest magnitude
StrongestIsFirstMaximum ==
    (Summarised /\ result.value # None) =>
        SummaryOf(result.value[1][2], FirstStrongest)

\* C19: compute_seismic_stats raises a validation error on an empty list
\* and returns on every other list; the strongest earthquake returned has
\* the largest magnitude of the list and is the first such earthquake in
\* list order.
C19_StatsReturnOrEmpty ==
    Summarised =>
        IF earthquakes = <<>>
        THEN result.raised # None /\ result.raised[1].type = "ValueError"
        ELSE /\ result.raised = None
             /\ SummaryOf(result.value[1][2], FirstStrongest)

\* two earthquakes of the largest magnitude with different dates, and the
\* summary is the one of the earlier position
TieResolved ==
    /\ Summarised
    /\ result.value # None
    /\ \E i \in 1..Len(earthquakes) : \E j \in 1..Len(earthquakes) :
          /\ i < j
          /\ earthquakes[i].magnitude = earthquakes[j].magnitude
          /\ earthquakes[i] = FirstStrongest
          /\ earthquakes[i].time_ms # earthquakes[j].time_ms
    /\ result.value[1][2].date = <<2024, 1, 1>>

\* ------------------------------------------------------------------------
\* Properties of interpolate_pga
\* ------------------------------------------------------------------------
Interpolated == pc = "interpolate_pga"

\* the point of the call is the node of row r and column c, rows counted
\* from lat_max and columns from lon_min
AtNode(r, c) ==
    /\ args.lat = args.grid.lat_max - r * args.grid.lat_spacing
    /\ args.lon = args.grid.lon_min + c * args.grid.lon_spacing

BetweenNodes ==
    /\ Interpolated
    /\ args.grid = GridWide
    /\ args.lat = 1
    /\ args.lon = -1
    /\ result = Some([pga |-> 7500000, mmi |-> 38])

\* ------------------------------------------------------------------------
\* Properties of felt_radius_km
\* ------------------------------------------------------------------------
FeltDone == pc = "felt_radius_km"

\* C21: felt_radius_km returns at least 5.0 km; it returns exactly 5.0 km
\* when c = 3.70 + 1.17 * M - 5.0 is not positive or when the solved
\* hypocentral radius does not exceed the depth; and a negative depth gives
\* the result of depth 0.
C21_FeltRadiusFloor ==
    FeltDone =>
        /\ result >= 50
        /\ 3700 + 117 * args.magnitude - 5000 <= 0 => result = 50
        /\ (3700 + 117 * args.magnitude - 5000 > 0
            /\ SolvedRadius(args.magnitude) <= 1000 * args.depth_km) => result = 50
        /\ args.depth_km < 0 => result = FeltRadiusKm(args.magnitude, 0)

\* C21 witness: a magnitude 1.2 earthquake at the surface, whose solved
\* radius of 1.1 km is raised to the minimum.
C21_Witness ==
    /\ FeltDone
    /\ args.magnitude = 12
    /\ args.depth_km = 0
    /\ Round1Metres(SolvedRadius(args.magnitude)) = 11
    /\ result = 50

\* a negative depth, a positive c and a radius above the minimum
NegativeDepthFelt ==
    /\ FeltDone
    /\ args.magnitude = 50
    /\ args.depth_km = -2
    /\ result = 358

\* ------------------------------------------------------------------------
\* Properties of fetch_shakemap_grids and _parse_grid_xml
\* ------------------------------------------------------------------------
Fetched == pc = "fetch_shakemap_grids"

\* the events the function asks the network about
Targets == TargetIds(args.earthquake_ids, args.event_types)

\* the requests for the event end with the document of a usable grid
Usable(eid) ==
    /\ args.network[eid].detail = "ok"
    /\ args.network[eid].grid_url # None
    /\ args.network[eid].download = "ok"
    /\ args.network[eid].content = ValidXml

\* an earthquake at the place of us1 with the id eid
QuakeWithId(eid) ==
    [id |-> eid, magnitude |-> 60, latitude |-> 0, longitude |-> 0, depth_km |-> 10]

\* C22: whatever fails for an event (the detail request, the grid URL
\* lookup, the download or the parse, a wrong number of lines and a missing
\* grid_specification or grid_data included), _parse_grid_xml and
\* fetch_shakemap_grids raise nothing, the map returned holds exactly the
\* events with a usable grid, and find_exposed_airports takes the heuristic
\* for every other earthquake.
C22_UnusableGridNeverAborts ==
    Fetched =>
        /\ \A eid \in Targets : ParseGridXml(args.network[eid].content, eid).raised = None
        /\ result.raised = None
        /\ DOMAIN result.value[1] = {eid \in Targets : Usable(eid)}
        /\ \A eid \in args.earthquake_ids :
              ~(eid \in Targets /\ Usable(eid)) =>
                  \A ap \in AirportPool :
                      GridResult(ap, QuakeWithId(eid), Some(result.value[1])) = None

\* when nothing leaves the function, the map holds exactly the events with
\* a usable grid
ReturnedGridsAreTheUsable ==
    (Fetched /\ result.raised = None) =>
        /\ DOMAIN result.value[1] = {eid \in Targets : Usable(eid)}
        /\ \A eid \in DOMAIN result.value[1] :
              result.value[1][eid] = [GridUs1 EXCEPT !.event_id = eid]

\* ------------------------------------------------------------------------
\* Properties of run_pipeline
\* ------------------------------------------------------------------------
Piped == pc = "run_pipeline"

\* the number of fetched earthquakes whose epicentre lies in the country
QuakesIn(cc) ==
    Cardinality({i \in 1..Len(args.world.earthquakes) :
                    Geocode(args.world.earthquakes[i].latitude,
                            args.world.earthquakes[i].longitude) = cc})

\* C23: every result run_pipeline returns has earthquake_count >=
\* min_quakes_per_country and at least one exposed airport, the list is
\* ordered by seismic_hub_risk_score descending, and the list is empty when
\* no earthquake is fetched or no country reaches the minimum count.
C23_PipelineResults ==
    (Piped /\ result.raised = None) =>
        /\ \A i \in 1..Len(result.results) :
              /\ result.results[i].earthquake_count >= args.config.min_quakes_per_country
              /\ result.results[i].earthquake_count = QuakesIn(result.results[i].iso_alpha2)
              /\ Len(result.results[i].exposed_airports) >= 1
        /\ \A i \in 1..Len(result.results) : \A j \in 1..Len(result.results) :
              i < j => result.results[i].seismic_hub_risk_score
                          >= result.results[j].seismic_hub_risk_score
        /\ (\/ args.world.earthquakes = <<>>
            \/ \A cc \in Range(Alpha2Codes) : QuakesIn(cc) < args.config.min_quakes_per_country)
              => result.results = <<>>

\* the run ends without an exception when no earthquake is fetched or no
\* country reaches the minimum count
EmptyRunReturns ==
    (Piped /\ (\/ args.world.earthquakes = <<>>
               \/ \A cc \in Range(Alpha2Codes) :
                     QuakesIn(cc) < args.config.min_quakes_per_country))
        => result.raised = None

\* C23 witness: two countries are returned, the second in the order of
\* their codes first because its score is larger.
C23_Witness ==
    /\ Piped
    /\ result.raised = None
    /\ Len(result.results) = 2
    /\ result.results[1].iso_alpha2 = "PH"
    /\ result.results[2].iso_alpha2 = "JP"
    /\ result.results[1].seismic_hub_risk_score > result.results[2].seismic_hub_risk_score
    /\ result.results[2].earthquake_count = 2


\* C28: inside run_pipeline compute_seismic_stats is never called with an
\* empty earthquake list and, with the legacy method, calculate_risk_score
\* is never called with exposed_airport_count = 0; so the run never ends
\* with one of the two validation errors.
C28_NoValidationErrorInPipeline ==
    Piped =>
        /\ \A i \in 1..Len(result.stats_calls) : result.stats_calls[i] # <<>>
        /\ \A i \in 1..Len(result.risk_calls) :
              /\ result.risk_calls[i].exposed_airport_count # Some(0)
              /\ result.risk_calls[i].exposed_airports # Some(<<>>)
        /\ result.raised # None =>
              /\ result.raised[1].message # <<"Cannot compute stats for empty earthquake list">>
              /\ result.raised[1].message
                    # <<"Cannot compute risk score with zero exposed airports">>

\* C28 witness: a legacy run in which a qualifying country has an airport
\* but none within the radius, and another country is scored.
C28_Witness ==
    /\ Piped
    /\ args.config.scoring_method = "legacy"
    /\ args.config.min_quakes_per_country = 1
    /\ \E i \in 1..Len(args.world.csv) : args.world.csv[i].name = "Laoag"
    /\ QuakesIn("PH") >= 1
    /\ args.world.rest_data["PH"] # None
    /\ result.raised = None
    /\ Len(result.stats_calls) = 1
    /\ Len(result.risk_calls) = 1
    /\ Len(result.results) = 1
    /\ result.results[1].iso_alpha2 = "JP"

\* ------------------------------------------------------------------------
\* Properties of cache_get and cache_put
\* ------------------------------------------------------------------------
Got == pc = "cache_get"

\* C24: cache_get(key, max_age) returns the bytes that the last cache_put
\* of the key stored when they are at most max_age seconds old, and returns
\* None, raising nothing, when there is no entry, when the entry is older,
\* or when the metadata file has been damaged in whatever way; what is done
\* to other keys does not matter.
C24_CacheGet ==
    Got =>
        /\ result.raised = None
        /\ IF /\ args.key \in DOMAIN stored
              /\ stored[args.key].intact
              /\ clock - stored[args.key].time <= args.max_age_seconds
           THEN result = Return(Some(stored[args.key].data))
           ELSE result = Return(None)

\* an entry that is as old as max_age allows is returned
FreshAtTheLimit ==
    /\ Got
    /\ args.key \in DOMAIN stored
    /\ stored[args.key].intact
    /\ clock - stored[args.key].time = args.max_age_seconds
    /\ result = Return(Some(stored[args.key].data))

\* ------------------------------------------------------------------------
\* Properties of the run command repeated on one date
\* ------------------------------------------------------------------------
\* a run with results that follows a run with the same results on the same
\* date
SecondRunOfTheDay ==
    /\ pc = "run"
    /\ pc' = "run"
    /\ today' = today
    /\ current_results' = current_results

\* C25: the second of two runs on one UTC date that find the same results
\* reports the same TrendSummary as the first; the snapshot the first run
\* saved does not change what the second run computes.
C25_SecondRunSameTrends ==
    [][SecondRunOfTheDay => trends' = trends]_vars

\* ------------------------------------------------------------------------
\* Properties of the airport trends
\* ------------------------------------------------------------------------
\* no date occurs twice in the date list of a trend
OneEntryPerDate(t) ==
    \A i \in 1..Len(t.dates) : \A j \in 1..Len(t.dates) :
        t.dates[i] = t.dates[j] => i = j

\* C26: every exposed airport of current_results has its own trend under
\* its iata_code, with its name, the code of its country and its rounded
\* exposure_score as current_score, and a series with at most one entry per
\* date; also for airports that have no IATA code.
C26_OneTrendPerAirport ==
    Computed =>
        \A e \in Range(ResultAirports(current_results)) :
            /\ e.ap.iata_code \in DOMAIN trends[1].airport_trends
            /\ LET t == trends[1].airport_trends[e.ap.iata_code]
               IN /\ t.name = e.ap.name
                  /\ t.country_iso3 = e.iso3
                  /\ t.current_score = Round2(e.ap.exposure_score)
                  /\ OneEntryPerDate(t)

\* the same for the airports that have an IATA code
TrendPerCodedAirport ==
    Computed =>
        \A e \in Range(ResultAirports(current_results)) :
            e.ap.iata_code # "N/A" =>
                LET t == trends[1].airport_trends[e.ap.iata_code]
                IN /\ t.name = e.ap.name
                   /\ t.country_iso3 = e.iso3
                   /\ t.current_score = Round2(e.ap.exposure_score)
                   /\ OneEntryPerDate(t)

\* ------------------------------------------------------------------------
\* Properties of interpolate_pga on parsed grids
\* ------------------------------------------------------------------------
InterpolatedParsed == pc = "interpolate_parsed" /\ result.interpolated # None

\* C27: a grid that _parse_grid_xml returned is interpolated without an
\* exception at every point; inside its bounding box a pair of values comes
\* back.
C27_ParsedGridInterpolates ==
    InterpolatedParsed =>
        LET grid == result.parsed.value[1][1]
            outcome == result.interpolated[1]
        IN /\ outcome.raised = None
           /\ ~OutOfBounds(grid, args.lat, args.lon) => outcome.value[1] # None

\* the same for the grids with spacings other than zero and at least one
\* row and one column
SoundGridInterpolates ==
    InterpolatedParsed =>
        LET grid == result.parsed.value[1][1]
        IN (grid.lon_spacing > 0 /\ grid.lat_spacing > 0 /\ grid.nlon > 0 /\ grid.nlat > 0)
               => result.interpolated[1].raised = None

\* ------------------------------------------------------------------------
\* Properties of the history window
\* ------------------------------------------------------------------------
ParseableDates == {d \in StoredDates : Parseable(d)}

\* C29: when the directory holds at least max_days parseable snapshot
\* files, load_history returns exactly the max_days most recent parseable
\* snapshots, whatever unparseable files lie between them.
C29_WindowOfParseable ==
    (Loaded /\ loaded.raised = None /\ max_days >= 1
        /\ Cardinality(ParseableDates) >= max_days) =>
        /\ Len(loaded.snapshots) = max_days
        /\ \A d \in ParseableDates :
              Cardinality({e \in ParseableDates : e >= d}) <= max_days
                  => d \in Range(LoadedDates)

\* the same when every file of the directory parses
WindowWithoutUnparseable ==
    (Loaded /\ loaded.raised = None /\ max_days >= 1
        /\ ParseableDates = StoredDates
        /\ Cardinality(ParseableDates) >= max_days) =>
        /\ Len(loaded.snapshots) = max_days
        /\ \A d \in ParseableDates :
              Cardinality({e \in ParseableDates : e >= d}) <= max_days
                  => d \in Range(LoadedDates)

\* ------------------------------------------------------------------------
\* Properties of GET /risk
\* ------------------------------------------------------------------------
AllCompleted == \A r \in DOMAIN requests : requests[r].pc = "done"

Succeeded == {r \in DOMAIN requests : requests[r].status = 200}

\* C30: once all requests have completed, run_count is the number of
\* requests whose pipeline run succeeded and last_run is set exactly when
\* run_count > 0; the requests whose pipeline raised have status 502.
C30_RunCountCountsSuccesses ==
    AllCompleted =>
        /\ run_count = Cardinality(Succeeded)
        /\ (last_run # None) <=> (run_count > 0)
        /\ \A r \in DOMAIN requests : requests[r].status \in {200, 502}

\* a request whose pipeline raises changes neither run_count nor last_run,
\* and run_count never exceeds the number of successful requests
FailureLeavesStateAlone ==
    [][/\ pc' = "pipeline_raises" => run_count' = run_count /\ last_run' = last_run
       /\ run_count' <= Cardinality({r \in DOMAIN requests' : requests'[r].status = 200})
      ]_vars

\* requests served one after the other are counted
OneAtATimeCounted ==
    (AllCompleted /\ Cardinality(DOMAIN requests) = 1) =>
        run_count = Cardinality(Succeeded)

====
